---- MODULE Spec2Model ----
(***************************************************************************)
(* letscatchup: the session state engine (backend SessionManager, the      *)
(* user utilities and the tag validation utilities).                       *)
(*                                                                         *)
(* Strings are sequences of one-character strings, so that trim(),         *)
(* toLowerCase(), the regular expressions and split/slice/join can be      *)
(* computed as the code computes them.  A JavaScript Map is a sequence of   *)
(* entries in insertion order (the order Array.from(map.values()) yields). *)
(***************************************************************************)
EXTENDS Integers, Sequences, FiniteSets, TLC

\* ------------------------------------------------------------------ bounds
MaxUsers == 2       \* user ids handed out by generateUserId in one run
MaxTags  == 1       \* keyword ids handed out by generateKeywordId in one run

\* ------------------------------------------------------- program constants
CodeMin        == 100
CodeMax        == 999
MaxAttempts    == 10
MinNameLen     == 2
MaxNameLen     == 50
MaxHyphens     == 2
MaxParts       == 3
TTLHours       == 24

None == "none"

\* ------------------------------------------------------------- characters
UpperSeq == <<"A","B","C","D","E","F","G","H","I","J","K","L","M",
              "N","O","P","Q","R","S","T","U","V","W","X","Y","Z">>
LowerSeq == <<"a","b","c","d","e","f","g","h","i","j","k","l","m",
              "n","o","p","q","r","s","t","u","v","w","x","y","z">>
Digits   == {"0","1","2","3","4","5","6","7","8","9"}

Range(f) == { f[i] : i \in DOMAIN f }

UpperChars == Range(UpperSeq)
LowerChars == Range(LowerSeq)
\* the lower-case letter of every upper-case letter
LowerOf == [c \in UpperChars |->
               LowerSeq[CHOOSE i \in DOMAIN UpperSeq : UpperSeq[i] = c]]

IsUpper(c)  == c \in UpperChars
IsLower(c)  == c \in LowerChars
IsLetter(c) == IsUpper(c) \/ IsLower(c)
\* the characters of the model's alphabet that the regex class \s and
\* String.prototype.trim treat as white space
IsSpace(c)  == c \in {" ", "\t"}

\* String.prototype.toLowerCase, one character
LowerChar(c) == IF IsUpper(c) THEN LowerOf[c] ELSE c

toLowerCase(s) == [i \in DOMAIN s |-> LowerChar(s[i])]

RECURSIVE TrimStart(_)
TrimStart(s) == IF s # <<>> /\ IsSpace(Head(s)) THEN TrimStart(Tail(s)) ELSE s

RECURSIVE TrimEnd(_)
TrimEnd(s) == IF s # <<>> /\ IsSpace(s[Len(s)])
              THEN TrimEnd(SubSeq(s, 1, Len(s) - 1)) ELSE s

\* String.prototype.trim
trim(s) == TrimEnd(TrimStart(s))

\* s.replace(/X+/g, r): every maximal run of characters of class X becomes r
RECURSIVE ReplaceRuns(_, _, _)
ReplaceRuns(s, InClass(_), r) ==
    IF s = <<>> THEN <<>>
    ELSE IF InClass(Head(s))
         THEN IF Len(s) > 1 /\ InClass(s[2])
              THEN ReplaceRuns(Tail(s), InClass, r)
              ELSE r \o ReplaceRuns(Tail(s), InClass, r)
         ELSE <<Head(s)>> \o ReplaceRuns(Tail(s), InClass, r)

\* s.replace(/[^...]/g, ''): keep the characters of the class
Keep(s, InClass(_)) == SelectSeq(s, InClass)

IsHyphen(c)         == c = "-"
IsLetterOrHyphen(c) == IsLetter(c) \/ IsHyphen(c)

RECURSIVE StripLeadingHyphens(_)
StripLeadingHyphens(s) ==
    IF s # <<>> /\ Head(s) = "-" THEN StripLeadingHyphens(Tail(s)) ELSE s

RECURSIVE StripTrailingHyphens(_)
StripTrailingHyphens(s) ==
    IF s # <<>> /\ s[Len(s)] = "-"
    THEN StripTrailingHyphens(SubSeq(s, 1, Len(s) - 1)) ELSE s

\* s.replace(/^-+|-+$/g, '')
StripHyphens(s) == StripTrailingHyphens(StripLeadingHyphens(s))

\* s.split('-'): the sequence of the parts between hyphens ('' splits to [''])
RECURSIVE SplitAcc(_, _, _)
SplitAcc(s, cur, acc) ==
    IF s = <<>> THEN Append(acc, cur)
    ELSE IF Head(s) = "-" THEN SplitAcc(Tail(s), <<>>, Append(acc, cur))
         ELSE SplitAcc(Tail(s), Append(cur, Head(s)), acc)

split(s) == SplitAcc(s, <<>>, <<>>)

\* parts.slice(0, n)
slice(parts, n) == SubSeq(parts, 1, IF Len(parts) < n THEN Len(parts) ELSE n)

\* parts.join('-')
RECURSIVE join(_)
join(parts) == IF parts = <<>> THEN <<>>
               ELSE IF Len(parts) = 1 THEN parts[1]
                    ELSE parts[1] \o <<"-">> \o join(Tail(parts))

Count(s, InClass(_)) == Len(SelectSeq(s, InClass))

\* /^[a-zA-Z]+(-[a-zA-Z]+)*$/ : non-empty runs of letters joined by hyphens
validPattern(s) ==
    /\ s # <<>>
    /\ \A i \in DOMAIN s : IsLetterOrHyphen(s[i])
    /\ \A p \in Range(split(s)) : p # <<>>

HasDoubleHyphen(s) == \E i \in 1..(Len(s) - 1) : s[i] = "-" /\ s[i + 1] = "-"

\* the result of validateTag; hasSuggestion is FALSE where the code returns
\* no suggestion field
TagResult(valid, err, has, sugg) ==
    [isValid |-> valid, error |-> err, hasSuggestion |-> has, suggestion |-> sugg]

\* validateTag without the check of the number of hyphens
validateTagAnyHyphens(text) ==
    LET trimmed == trim(text) IN
    IF Len(trimmed) = 0
    THEN TagResult(FALSE, "Tag cannot be empty", FALSE, <<>>)
    ELSE IF \E i \in DOMAIN trimmed : trimmed[i] = " "
    THEN TagResult(FALSE, "Tags cannot contain spaces", TRUE,
                   toLowerCase(ReplaceRuns(trimmed, IsSpace, <<"-">>)))
    ELSE IF ~validPattern(trimmed)
    THEN TagResult(FALSE, "Tags can only contain letters and hyphens", TRUE,
                   toLowerCase(Keep(trimmed, IsLetterOrHyphen)))
    ELSE TagResult(TRUE, None, FALSE, <<>>)

\* validateTag: the checks in the code's order
validateTag(text) ==
    LET trimmed == trim(text) IN
    IF Len(trimmed) = 0
    THEN TagResult(FALSE, "Tag cannot be empty", FALSE, <<>>)
    ELSE IF \E i \in DOMAIN trimmed : trimmed[i] = " "
    THEN TagResult(FALSE, "Tags cannot contain spaces", TRUE,
                   toLowerCase(ReplaceRuns(trimmed, IsSpace, <<"-">>)))
    ELSE IF Count(trimmed, IsHyphen) > MaxHyphens
    THEN TagResult(FALSE, "Tags can have maximum 2 hyphens (3 words)", TRUE,
                   toLowerCase(join(slice(split(trimmed), MaxParts))))
    ELSE IF ~validPattern(trimmed)
    THEN TagResult(FALSE, "Tags can only contain letters and hyphens", TRUE,
                   toLowerCase(Keep(trimmed, IsLetterOrHyphen)))
    ELSE IF HasDoubleHyphen(trimmed)
    THEN TagResult(FALSE, "Tags cannot have consecutive hyphens", TRUE,
                   toLowerCase(ReplaceRuns(trimmed, IsHyphen, <<"-">>)))
    ELSE IF Head(trimmed) = "-" \/ trimmed[Len(trimmed)] = "-"
    THEN TagResult(FALSE, "Tags cannot start or end with hyphens", TRUE,
                   toLowerCase(StripHyphens(trimmed)))
    ELSE TagResult(TRUE, None, FALSE, <<>>)

\* normalizeTag that collapses the hyphens before it removes the other
\* characters
normalizeTagCollapseFirst(text) ==
    LET s1 == toLowerCase(trim(text))
        s2 == ReplaceRuns(s1, IsSpace, <<"-">>)
        s3 == ReplaceRuns(s2, IsHyphen, <<"-">>)
        s4 == Keep(s3, IsLetterOrHyphen)
        s5 == StripHyphens(s4)
    IN  join(slice(split(s5), MaxParts))

\* normalizeTag: the chain of string operations, in the code's order
normalizeTag(text) ==
    LET s1 == toLowerCase(trim(text))
        s2 == ReplaceRuns(s1, IsSpace, <<"-">>)
        s3 == Keep(s2, IsLetterOrHyphen)
        s4 == ReplaceRuns(s3, IsHyphen, <<"-">>)
        s5 == StripHyphens(s4)
    IN  join(slice(split(s5), MaxParts))

\* ---------------------------------------------------------- user utilities
IsDigit(c) == c \in Digits

\* the class [a-zA-Z0-9\s\-_'.] of validNameRegex
IsNameChar(c) == IsLetter(c) \/ IsDigit(c) \/ IsSpace(c) \/ c \in {"-", "_", "'", "."}

\* validateUserName: [isValid, error]
validateUserName(name) ==
    LET trimmedName == trim(name) IN
    IF trimmedName = <<>>
    THEN [isValid |-> FALSE, error |-> "Name cannot be empty"]
    ELSE IF Len(trimmedName) < MinNameLen
    THEN [isValid |-> FALSE, error |-> "Name must be at least 2 characters long"]
    ELSE IF Len(trimmedName) > MaxNameLen
    THEN [isValid |-> FALSE, error |-> "Name must be less than 50 characters long"]
    ELSE IF ~(\A i \in DOMAIN trimmedName : IsNameChar(trimmedName[i]))
    THEN [isValid |-> FALSE, error |-> "Name contains invalid characters"]
    ELSE [isValid |-> TRUE, error |-> None]

\* isNameTakenInSession that compares the names without lower-casing them
isNameTakenCaseSensitive(s, name, excludeUserId) ==
    \E i \in DOMAIN s.participants :
        /\ ~(excludeUserId # 0 /\ s.participants[i].id = excludeUserId)
        /\ trim(s.participants[i].name) = trim(name)

\* isNameTakenInSession(session, name, excludeUserId); excludeUserId 0 = absent
isNameTakenInSession(s, name, excludeUserId) ==
    LET normalizedName == toLowerCase(trim(name)) IN
    \E i \in DOMAIN s.participants :
        /\ ~(excludeUserId # 0 /\ s.participants[i].id = excludeUserId)
        /\ toLowerCase(trim(s.participants[i].name)) = normalizedName

\* getExistingUserCodes: the codes of the participants, in map order
getExistingUserCodes(s) == [i \in DOMAIN s.participants |-> s.participants[i].userCode]

\* the for-loop of generateUserCode: the first code from i on that is free
RECURSIVE FirstFreeCode(_, _)
FirstFreeCode(i, existingCodes) ==
    IF i > CodeMax THEN 0
    ELSE IF i \notin Range(existingCodes) THEN i
         ELSE FirstFreeCode(i + 1, existingCodes)

\* generateUserCode(existingCodes): the set of values the call can return,
\* Math.random() ranging over the codes of `draws`; 0 stands for the throw
\* 'Unable to generate unique user code - session is full'
RECURSIVE generateUserCodeFrom(_, _, _)
generateUserCodeFrom(existingCodes, draws, attempts) ==
    IF attempts < MaxAttempts
    THEN UNION { IF code \notin Range(existingCodes)
                 THEN {code}
                 ELSE generateUserCodeFrom(existingCodes, draws, attempts + 1)
                 : code \in draws }
    ELSE {FirstFreeCode(CodeMin, existingCodes)}

\* generateUserCode that returns the first random code without looking at
\* the existing ones
generateUserCodeUnchecked(existingCodes, draws) == draws

generateUserCode(existingCodes, draws) == generateUserCodeFrom(existingCodes, draws, 0)

\* isUserAdmin that accepts every participant
isUserAdminAnyParticipant(s, userId) ==
    \E i \in DOMAIN s.participants : s.participants[i].id = userId

isUserAdmin(s, userId) == s.adminUserId = userId

\* ------------------------------------------------------- JavaScript Map
\* Map.prototype.has / get / set on a sequence of entries keyed by KeyOf
MapHas(m, KeyOf(_), k) == \E i \in DOMAIN m : KeyOf(m[i]) = k
MapIndex(m, KeyOf(_), k) == CHOOSE i \in DOMAIN m : KeyOf(m[i]) = k
MapGet(m, KeyOf(_), k) == m[MapIndex(m, KeyOf, k)]
MapSet(m, KeyOf(_), k, entry) ==
    IF MapHas(m, KeyOf, k) THEN [m EXCEPT ![MapIndex(m, KeyOf, k)] = entry]
    ELSE Append(m, entry)

IdOf(e)     == e.id
UserIdOf(v) == v.userId

RECURSIVE SumValues(_)
\* votes.reduce((sum, v) => sum + v.value, 0)
SumValues(votes) == IF votes = <<>> THEN 0
                    ELSE Head(votes).value + SumValues(Tail(votes))

\* Array.prototype.indexOf: 0 stands for -1
indexOf(arr, x) == IF \E i \in DOMAIN arr : arr[i] = x
                   THEN CHOOSE i \in DOMAIN arr :
                            arr[i] = x /\ \A j \in 1..(i - 1) : arr[j] # x
                   ELSE 0

\* arr.splice(i, 1)
splice1(arr, i) == SubSeq(arr, 1, i - 1) \o SubSeq(arr, i + 1, Len(arr))

\* ------------------------------------------------------------------ state
VARIABLES
    session,        \* SessionManager.currentSession: a PlanningSession or NoSession
    cleanupTimer,   \* SessionManager.cleanupTimer: a timeout handle or 0 (null)
    timers,         \* the runtime's pending setTimeout callbacks: [id, at]
    now,            \* the clock (Date.now()), in hours
    nextUid,        \* the next fresh user id (generateUserId)
    nextKid,        \* the next fresh keyword id (generateKeywordId)
    nextTimer,      \* the next fresh timeout handle
    last,           \* the last step: the Store call made, its error, the id returned
    submitted,      \* the texts participants passed to addKeyword for this session
    emitted,        \* what the last request handler or callback sent out
    caller,         \* the user id named in the request last served (0: none)
    clients,        \* the browsers: socket, replies in flight, local store
    commits         \* how many Store mutations have been committed

vars == <<session, cleanupTimer, timers, now, nextUid, nextKid, nextTimer,
          last, submitted, emitted, caller, clients, commits>>

NoSession == [id |-> None]
SessionId == "current"

HasSession == session.id # None

Categories == {"time", "location", "food", "activity"}
VoteValues == {1, -1}

\* the threshold 0.6 as PosNum/PosDen and 0.25 as NegNum/NegDen
PosNum == 3
PosDen == 5
NegNum == 1
NegDen == 4

\* the record of a Store call: the operation, the error it ended with (None
\* when it succeeded) and the id it returned or acted on (0 when it failed)
Ret(op, error, arg) == [op |-> op, ok |-> error = None, error |-> error, arg |-> arg]

\* ------------------------------------------------------------ browsers
\* the browsers of users 1 and 2
ClientIds == {1, 2}

\* useSessionStore: session is null
NoReplica == [id |-> None]

\* the places that call useSessionConnection: App, which is always mounted,
\* and SessionPage
Hooks == {"App", "SessionPage"}

\* a browser that has not opened the page: its socket is not connected, is in
\* no room and has joined for no user, nothing is in flight to it, its store
\* is empty, no smart add of it awaits the LLM; SessionPage is not mounted,
\* no hasJoinedRef holds a key and no effect is due
closedClient ==
    [open |-> FALSE, room |-> FALSE, users |-> {}, inbox |-> <<>>, http |-> <<>>,
     session |-> NoReplica, seen |-> 0, smart |-> <<>>,
     page |-> FALSE, joined |-> {}, render |-> {}]

\* io.sockets.sockets: the ids of the sockets connected now
connectedSockets == {c \in ClientIds : clients[c].open}

\* enterRoom that puts the socket in the room whatever the answer
enterRoomUnchecked(cl, socketId, userId, accepted) ==
    [cl EXCEPT ![socketId].open = TRUE,
               ![socketId].room = TRUE,
               ![socketId].users = @ \cup {userId}]

\* the connections after the connected socket socketId sent join-session as
\* userId: socket.join(sessionId) is reached only when the request is accepted
enterRoom(cl, socketId, userId, accepted) ==
    [cl EXCEPT ![socketId].open = TRUE,
               ![socketId].room = @ \/ accepted,
               ![socketId].users = IF accepted THEN @ \cup {userId} ELSE @]

\* no browser is connected
Offline ==
    /\ caller = 0
    /\ clients = [c \in ClientIds |-> closedClient]
    /\ commits = 0

Init ==
    /\ session = NoSession
    /\ cleanupTimer = 0
    /\ timers = {}
    /\ now = 0
    /\ nextUid = 1
    /\ nextKid = 1
    /\ nextTimer = 1
    /\ last = Ret("init", None, 0)
    /\ submitted = {}
    /\ emitted = <<>>
    /\ Offline

\* a Store operation called on its own sends nothing and serves no request
Quiet == /\ emitted' = <<>>
         /\ caller' = 0
         /\ UNCHANGED <<clients, commits>>

\* a request served while no browser is connected
NoListeners == UNCHANGED <<clients, commits>>

\* ------------------------------------------------------------- timers
\* clearTimeout(handle)
clearTimeout(ts, handle) == { t \in ts : t.id # handle }

\* cleanupSession that keeps the session and marks it expired
cleanupSessionMarkExpired ==
    /\ session' = [session EXCEPT !.status = "expired"]
    /\ timers' = IF cleanupTimer # 0 THEN clearTimeout(timers, cleanupTimer) ELSE timers
    /\ cleanupTimer' = 0
    /\ submitted' = {}

\* cleanupSession: drop the session, clear and forget the timer
cleanupSession ==
    /\ session' = NoSession
    /\ timers' = IF cleanupTimer # 0 THEN clearTimeout(timers, cleanupTimer) ELSE timers
    /\ cleanupTimer' = 0
    /\ submitted' = {}

\* isExpired that compares the clock with createdAt
isExpiredSinceCreation(s, t) == t > s.createdAt

\* isExpired that holds from expiresAt on
isExpiredOnDeadline(s, t) == t >= s.expiresAt

\* new Date() > this.currentSession.expiresAt
isExpired(s, t) == t > s.expiresAt

\* cleanupExpiredSession, run as a timer callback; pending: the runtime's
\* timers once the one that fired is taken out
cleanupExpiredSession(pending) ==
    /\ IF HasSession /\ isExpired(session, now)
       THEN /\ session' = NoSession
            /\ timers' = IF cleanupTimer # 0
                         THEN clearTimeout(pending, cleanupTimer) ELSE pending
            /\ cleanupTimer' = 0
            /\ submitted' = {}
       ELSE /\ timers' = pending
            /\ UNCHANGED <<session, cleanupTimer, submitted>>
    /\ last' = Ret("cleanupExpiredSession", None, 0)
    /\ Quiet
    /\ UNCHANGED <<now, nextUid, nextKid, nextTimer>>

\* the timeout set by scheduleCleanup fires, at its time or later
TimerFire == \E t \in timers : t.at <= now /\ cleanupExpiredSession(timers \ {t})

\* the hourly interval set by the constructor fires
Sweep == cleanupExpiredSession(timers)

\* ------------------------------------------------------------ consensus
Positive(votes) == Len(SelectSeq(votes, LAMBDA v : v.value > 0))
Negative(votes) == Len(SelectSeq(votes, LAMBDA v : v.value < 0))

\* ConsensusTest with positiveRatio > 0.6 in place of >=
ConsensusTestStrict(positiveVotes, negativeVotes, totalParticipants) ==
    /\ totalParticipants > 0
    /\ PosDen * positiveVotes > PosNum * totalParticipants
    /\ NegDen * negativeVotes < NegNum * totalParticipants

\* positiveRatio >= 0.6 && negativeRatio < 0.25, in integers; a division by
\* zero participants yields NaN or Infinity, for which the test is false
ConsensusTest(positiveVotes, negativeVotes, totalParticipants) ==
    /\ totalParticipants > 0
    /\ PosDen * positiveVotes >= PosNum * totalParticipants
    /\ NegDen * negativeVotes < NegNum * totalParticipants

\* checkConsensus that pushes to finalized without removing from pending
checkConsensusKeepPending(s, keywordId) ==
    IF ~MapHas(s.keywords, IdOf, keywordId) THEN s
    ELSE
    LET keyword == MapGet(s.keywords, IdOf, keywordId) IN
    IF ConsensusTest(Positive(keyword.votes), Negative(keyword.votes),
                     Len(s.participants))
       /\ indexOf(s.consensus.pending, keywordId) > 0
    THEN [s EXCEPT !.consensus.finalized = Append(@, keywordId)]
    ELSE s

\* checkConsensus that also returns a finalized keyword to pending when the
\* test fails
checkConsensusRevocable(s, keywordId) ==
    IF ~MapHas(s.keywords, IdOf, keywordId) THEN s
    ELSE
    LET keyword        == MapGet(s.keywords, IdOf, keywordId)
        pendingIndex   == indexOf(s.consensus.pending, keywordId)
        finalizedIndex == indexOf(s.consensus.finalized, keywordId)
        test           == ConsensusTest(Positive(keyword.votes),
                                        Negative(keyword.votes), Len(s.participants))
    IN  IF test /\ pendingIndex > 0
        THEN [s EXCEPT !.consensus =
                 [pending   |-> splice1(s.consensus.pending, pendingIndex),
                  finalized |-> Append(s.consensus.finalized, keywordId)]]
        ELSE IF ~test /\ finalizedIndex > 0
        THEN [s EXCEPT !.consensus =
                 [pending   |-> Append(s.consensus.pending, keywordId),
                  finalized |-> splice1(s.consensus.finalized, finalizedIndex)]]
        ELSE s

\* checkConsensus(keywordId) on session s: the session afterwards
checkConsensus(s, keywordId) ==
    IF ~MapHas(s.keywords, IdOf, keywordId) THEN s
    ELSE
    LET keyword           == MapGet(s.keywords, IdOf, keywordId)
        totalParticipants == Len(s.participants)
        positiveVotes     == Positive(keyword.votes)
        negativeVotes     == Negative(keyword.votes)
        pendingIndex      == indexOf(s.consensus.pending, keywordId)
    IN  IF ConsensusTest(positiveVotes, negativeVotes, totalParticipants)
           /\ pendingIndex > 0
        THEN [s EXCEPT !.consensus =
                 [pending   |-> splice1(s.consensus.pending, pendingIndex),
                  finalized |-> Append(s.consensus.finalized, keywordId)]]
        ELSE s

\* castVote that adds the new value to the old score instead of recomputing
castVoteIncremental(keyword, userId, value, t) ==
    [keyword EXCEPT !.votes = MapSet(keyword.votes, UserIdOf, userId,
                                     [userId |-> userId, value |-> value,
                                      timestamp |-> t]),
                    !.totalScore = keyword.totalScore + value]

\* castVote that pushes the vote onto a list instead of setting a map entry
castVoteAppend(keyword, userId, value, t) ==
    LET votes == Append(keyword.votes,
                        [userId |-> userId, value |-> value, timestamp |-> t])
    IN  [keyword EXCEPT !.votes = votes, !.totalScore = SumValues(votes)]

\* keyword.votes.set(userId, vote) and the recomputation of totalScore
castVote(keyword, userId, value, t) ==
    LET votes == MapSet(keyword.votes, UserIdOf, userId,
                        [userId |-> userId, value |-> value, timestamp |-> t])
    IN  [keyword EXCEPT !.votes = votes, !.totalScore = SumValues(votes)]

\* the body of vote() once session, user and keyword are found
voteApply(s, userId, keywordId, value, t) ==
    LET i  == MapIndex(s.keywords, IdOf, keywordId)
        s1 == [s EXCEPT !.keywords[i] = castVote(s.keywords[i], userId, value, t)]
    IN  checkConsensus(s1, keywordId)

\* the error vote() returns before it changes anything, or None
voteError(s, sessionId, userId, keywordId) ==
    IF s.id = None \/ s.id # sessionId THEN "Session not found"
    ELSE IF ~MapHas(s.participants, IdOf, userId) THEN "User not in session"
    ELSE IF ~MapHas(s.keywords, IdOf, keywordId) THEN "Keyword not found"
    ELSE None

\* existingKeyword: the index of the first keyword with the normalized text, or 0
findExisting(s, normalizedText) ==
    IF \E i \in DOMAIN s.keywords : normalizeTag(s.keywords[i].text) = normalizedText
    THEN CHOOSE i \in DOMAIN s.keywords :
             /\ normalizeTag(s.keywords[i].text) = normalizedText
             /\ \A j \in 1..(i - 1) : normalizeTag(s.keywords[j].text) # normalizedText
    ELSE 0

\* addKeyword returns null before changing anything
addKeywordRejects(s, sessionId, userId, text) ==
    \/ s.id = None \/ s.id # sessionId
    \/ ~MapHas(s.participants, IdOf, userId)
    \/ ~validateTag(text).isValid

\* addKeywordApply that looks for, and stores, the text as submitted
addKeywordApplyRaw(s, userId, text, category, keywordId, t) ==
    LET existing == findExisting(s, text) IN
    IF existing > 0
    THEN [session |-> [s EXCEPT !.keywords[existing] =
                           castVote(s.keywords[existing], userId, 1, t)],
          keyword |-> s.keywords[existing].id,
          created |-> FALSE]
    ELSE [session |-> [s EXCEPT
              !.keywords = Append(@, [id |-> keywordId, text |-> text,
                                      category |-> category, votes |-> <<>>,
                                      totalScore |-> 0, addedBy |-> userId,
                                      createdAt |-> t]),
              !.consensus.pending = Append(@, keywordId)],
          keyword |-> keywordId,
          created |-> TRUE]

\* addKeywordApply that leaves a vote the caller has already cast as it is
addKeywordApplyKeepVote(s, userId, text, category, keywordId, t) ==
    LET normalizedText == normalizeTag(text)
        existing       == findExisting(s, normalizedText)
    IN  IF existing > 0
        THEN [session |-> IF MapHas(s.keywords[existing].votes, UserIdOf, userId)
                          THEN s
                          ELSE [s EXCEPT !.keywords[existing] =
                                   castVote(s.keywords[existing], userId, 1, t)],
              keyword |-> s.keywords[existing].id,
              created |-> FALSE]
        ELSE [session |-> [s EXCEPT
                  !.keywords = Append(@, [id |-> keywordId, text |-> normalizedText,
                                          category |-> category, votes |-> <<>>,
                                          totalScore |-> 0, addedBy |-> userId,
                                          createdAt |-> t]),
                  !.consensus.pending = Append(@, keywordId)],
              keyword |-> keywordId,
              created |-> TRUE]

\* the body of addKeyword once it is past its checks: the session afterwards,
\* the id of the keyword returned and whether it was created; keywordId is
\* the fresh id used if a keyword is created
addKeywordApply(s, userId, text, category, keywordId, t) ==
    LET normalizedText == normalizeTag(text)
        existing       == findExisting(s, normalizedText)
    IN  IF existing > 0
        THEN [session |-> [s EXCEPT !.keywords[existing] =
                               castVote(s.keywords[existing], userId, 1, t)],
              keyword |-> s.keywords[existing].id,
              created |-> FALSE]
        ELSE [session |-> [s EXCEPT
                  !.keywords = Append(@, [id |-> keywordId, text |-> normalizedText,
                                          category |-> category, votes |-> <<>>,
                                          totalScore |-> 0, addedBy |-> userId,
                                          createdAt |-> t]),
                  !.consensus.pending = Append(@, keywordId)],
              keyword |-> keywordId,
              created |-> TRUE]

\* --------------------------------------------------------- Store operations
\* newParticipant that makes every participant an admin
newParticipantAllAdmin(userId, name, userCode, t, creator) ==
    [id |-> userId, name |-> trim(name), userCode |-> userCode, joinedAt |-> t,
     isCreator |-> creator, isAdmin |-> TRUE, socketId |-> 0]

newParticipant(userId, name, userCode, t, creator) ==
    [id |-> userId, name |-> trim(name), userCode |-> userCode, joinedAt |-> t,
     isCreator |-> creator, isAdmin |-> creator, socketId |-> 0]

\* freshSession whose expiresAt is 24h after the process started
freshSessionFixedExpiry(userId, description, creatorName, userCode, t) ==
    [id |-> SessionId, creator |-> userId, adminUserId |-> userId,
     description |-> description,
     participants |-> <<newParticipant(userId, creatorName, userCode, t, TRUE)>>,
     keywords |-> <<>>,
     consensus |-> [finalized |-> <<>>, pending |-> <<>>],
     status |-> "active", createdAt |-> t, expiresAt |-> TTLHours]

\* the PlanningSession createSession builds
freshSession(userId, description, creatorName, userCode, t) ==
    [id |-> SessionId, creator |-> userId, adminUserId |-> userId,
     description |-> description,
     participants |-> <<newParticipant(userId, creatorName, userCode, t, TRUE)>>,
     keywords |-> <<>>,
     consensus |-> [finalized |-> <<>>, pending |-> <<>>],
     status |-> "active", createdAt |-> t, expiresAt |-> t + TTLHours]

\* createSession that discards the existing session before it validates the name
createSessionCleanFirst(description, creatorName, draws) ==
    IF ~validateUserName(creatorName).isValid
    THEN /\ last' = Ret("createSession", validateUserName(creatorName).error, 0)
         /\ cleanupSession
         /\ UNCHANGED <<now, nextUid, nextKid, nextTimer>>
    ELSE /\ nextUid <= MaxUsers
         /\ \E userCode \in generateUserCode(<<>>, draws) :
              LET userId    == nextUid
                  expiresAt == now + TTLHours
                  \* cleanupSession() when a session exists ...
                  timers1   == IF HasSession /\ cleanupTimer # 0
                               THEN clearTimeout(timers, cleanupTimer) ELSE timers
                  timer1    == IF HasSession THEN 0 ELSE cleanupTimer
                  \* ... then scheduleCleanup(expiresAt)
                  timers2   == IF timer1 # 0
                               THEN clearTimeout(timers1, timer1) ELSE timers1
              IN  /\ session' = freshSession(userId, description, creatorName,
                                            userCode, now)
                  /\ timers' = timers2 \cup {[id |-> nextTimer, at |-> expiresAt]}
                  /\ cleanupTimer' = nextTimer
                  /\ nextTimer' = nextTimer + 1
                  /\ nextUid' = nextUid + 1
                  /\ submitted' = {}
                  /\ last' = Ret("createSession", None, userId)
                  /\ UNCHANGED <<now, nextKid>>

\* createSession(description, creatorName); draws: the values of Math.random
createSession(description, creatorName, draws) ==
    IF ~validateUserName(creatorName).isValid
    THEN /\ last' = Ret("createSession", validateUserName(creatorName).error, 0)
         /\ UNCHANGED <<session, cleanupTimer, timers, now, nextUid, nextKid,
                        nextTimer, submitted>>
    ELSE /\ nextUid <= MaxUsers
         /\ \E userCode \in generateUserCode(<<>>, draws) :
              LET userId    == nextUid
                  expiresAt == now + TTLHours
                  \* cleanupSession() when a session exists ...
                  timers1   == IF HasSession /\ cleanupTimer # 0
                               THEN clearTimeout(timers, cleanupTimer) ELSE timers
                  timer1    == IF HasSession THEN 0 ELSE cleanupTimer
                  \* ... then scheduleCleanup(expiresAt)
                  timers2   == IF timer1 # 0
                               THEN clearTimeout(timers1, timer1) ELSE timers1
              IN  /\ session' = freshSession(userId, description, creatorName,
                                            userCode, now)
                  /\ timers' = timers2 \cup {[id |-> nextTimer, at |-> expiresAt]}
                  /\ cleanupTimer' = nextTimer
                  /\ nextTimer' = nextTimer + 1
                  /\ nextUid' = nextUid + 1
                  /\ submitted' = {}
                  /\ last' = Ret("createSession", None, userId)
                  /\ UNCHANGED <<now, nextKid>>

\* participants.set(userId, participant) of joinSession: the session afterwards
joinApply(s, userId, name, userCode, t) ==
    [s EXCEPT !.participants =
        MapSet(@, IdOf, userId, newParticipant(userId, name, userCode, t, FALSE))]

\* the error joinSession returns before it changes anything, or None
joinError(s, sessionId, name) ==
    IF s.id = None \/ s.id # sessionId THEN "Session not found"
    ELSE IF s.status # "active" THEN "Session is not active"
    ELSE IF ~validateUserName(name).isValid THEN validateUserName(name).error
    ELSE IF isNameTakenInSession(s, name, 0) THEN "Name is already taken"
    ELSE None

\* joinSession(sessionId, name); maxUsers: the cap on user ids
joinSession(sessionId, name, draws, maxUsers) ==
    IF joinError(session, sessionId, name) # None
    THEN /\ last' = Ret("joinSession", joinError(session, sessionId, name), 0)
         /\ UNCHANGED <<session, cleanupTimer, timers, now, nextUid, nextKid,
                        nextTimer, submitted>>
    ELSE /\ nextUid <= maxUsers
         /\ \E userCode \in generateUserCode(getExistingUserCodes(session), draws) :
              IF userCode = 0
              THEN \* generateUserCode throws: the call ends with the exception
                   /\ last' = Ret("joinSession", "session is full", 0)
                   /\ UNCHANGED <<session, cleanupTimer, timers, now, nextUid,
                                  nextKid, nextTimer, submitted>>
              ELSE /\ session' = joinApply(session, nextUid, name, userCode, now)
                   /\ nextUid' = nextUid + 1
                   /\ last' = Ret("joinSession", None, nextUid)
                   /\ UNCHANGED <<cleanupTimer, timers, now, nextKid, nextTimer,
                                  submitted>>

\* rejoinResult whose find() tests p.userCode !== userCode
rejoinResultInverted(s, sessionId, userCode) ==
    LET found == { i \in DOMAIN s.participants :
                       s.participants[i].userCode # userCode }
        first == CHOOSE i \in found : \A j \in found : i <= j
        fail(e) == [success |-> FALSE, error |-> e, userId |-> 0, userCode |-> 0]
    IN  IF s.id = None \/ s.id # sessionId THEN fail("Session not found")
        ELSE IF s.status # "active" THEN fail("Session is not active")
        ELSE IF found = {} THEN fail("User code not found")
        ELSE [success |-> TRUE, error |-> None,
              userId |-> s.participants[first].id,
              userCode |-> s.participants[first].userCode,
              userData |-> [name |-> s.participants[first].name,
                            isCreator |-> s.participants[first].isCreator,
                            isAdmin |-> s.participants[first].isAdmin]]

\* what rejoinSession(sessionId, userCode) returns on session s
rejoinResult(s, sessionId, userCode) ==
    LET found == { i \in DOMAIN s.participants :
                       s.participants[i].userCode = userCode }
        \* Array.prototype.find: the first participant with the code
        first == CHOOSE i \in found : \A j \in found : i <= j
        fail(e) == [success |-> FALSE, error |-> e, userId |-> 0, userCode |-> 0]
    IN  IF s.id = None \/ s.id # sessionId THEN fail("Session not found")
        ELSE IF s.status # "active" THEN fail("Session is not active")
        ELSE IF found = {} THEN fail("User code not found")
        ELSE [success |-> TRUE, error |-> None,
              userId |-> s.participants[first].id,
              userCode |-> s.participants[first].userCode,
              userData |-> [name |-> s.participants[first].name,
                            isCreator |-> s.participants[first].isCreator,
                            isAdmin |-> s.participants[first].isAdmin]]

\* rejoinSession(sessionId, userCode)
rejoinSession(sessionId, userCode) ==
    /\ last' = Ret("rejoinSession", rejoinResult(session, sessionId, userCode).error,
                 rejoinResult(session, sessionId, userCode).userId)
    /\ UNCHANGED <<session, cleanupTimer, timers, now, nextUid, nextKid,
                   nextTimer, submitted>>

\* getSession(sessionId): the session, or NoSession for null
getSession(s, sessionId) ==
    IF s.id = None \/ s.id # sessionId THEN NoSession ELSE s

\* the error deleteSession returns before it changes anything, or None
deleteError(s, sessionId, userId) ==
    IF s.id = None \/ s.id # sessionId THEN "Session not found"
    ELSE IF ~isUserAdmin(s, userId)
    THEN "Only the session admin can delete the session"
    ELSE None

\* deleteSession(sessionId, userId)
deleteSession(sessionId, userId) ==
    IF deleteError(session, sessionId, userId) # None
    THEN /\ last' = Ret("deleteSession", deleteError(session, sessionId, userId), 0)
         /\ UNCHANGED <<session, cleanupTimer, timers, now, nextUid, nextKid,
                        nextTimer, submitted>>
    ELSE /\ cleanupSession
         /\ last' = Ret("deleteSession", None, userId)
         /\ UNCHANGED <<now, nextUid, nextKid, nextTimer>>

\* addKeyword(sessionId, userId, text, category); keyword 0 stands for null
\* maxTags: the cap on keyword ids; track: whether the history variable
\* `submitted` records the call
addKeyword(sessionId, userId, text, category, maxTags, track) ==
    IF addKeywordRejects(session, sessionId, userId, text)
    THEN /\ last' = Ret("addKeyword", "null", 0)
         /\ submitted' = IF track /\ HasSession /\ session.id = sessionId
                            /\ MapHas(session.participants, IdOf, userId)
                         THEN submitted \cup {text} ELSE submitted
         /\ UNCHANGED <<session, cleanupTimer, timers, now, nextUid, nextKid,
                        nextTimer>>
    ELSE LET r == addKeywordApply(session, userId, text, category, nextKid, now) IN
         /\ r.created => nextKid <= maxTags
         /\ session' = r.session
         /\ nextKid' = IF r.created THEN nextKid + 1 ELSE nextKid
         /\ submitted' = IF track THEN submitted \cup {text} ELSE submitted
         /\ last' = Ret("addKeyword", None, r.keyword)
         /\ UNCHANGED <<cleanupTimer, timers, now, nextUid, nextTimer>>

\* vote(sessionId, userId, keywordId, value)
vote(sessionId, userId, keywordId, value) ==
    IF voteError(session, sessionId, userId, keywordId) # None
    THEN /\ last' = Ret("vote", voteError(session, sessionId, userId, keywordId), 0)
         /\ UNCHANGED <<session, cleanupTimer, timers, now, nextUid, nextKid,
                        nextTimer, submitted>>
    ELSE /\ session' = voteApply(session, userId, keywordId, value, now)
         /\ last' = Ret("vote", None, keywordId)
         /\ UNCHANGED <<cleanupTimer, timers, now, nextUid, nextKid, nextTimer,
                        submitted>>

\* ------------------------------------------------------- request handlers
\* what a handler sends: to the session room, or to the caller (an HTTP
\* status, a socket 'error' event, or the exception the handler ends with)
Event(to, kind, arg) == [to |-> to, kind |-> kind, arg |-> arg, data |-> <<>>]

\* the event with its payload
Payload(ev, data) == [ev EXCEPT !.data = <<data>>]

Http(status) == Event("caller", "http", status)

\* Date.prototype.toISOString: the time as a string
toISOString(t) == [iso |-> t]

\* serializeVote
serializeVote(v) ==
    [userId |-> v.userId, value |-> v.value, timestamp |-> toISOString(v.timestamp)]

\* serializeParticipant
serializeParticipant(p) ==
    [id |-> p.id, name |-> p.name, userCode |-> p.userCode,
     joinedAt |-> toISOString(p.joinedAt), isCreator |-> p.isCreator,
     isAdmin |-> p.isAdmin]

\* serializeKeyword
serializeKeyword(k) ==
    [id |-> k.id, text |-> k.text, category |-> k.category,
     votes |-> [i \in DOMAIN k.votes |-> serializeVote(k.votes[i])],
     totalScore |-> k.totalScore, addedBy |-> k.addedBy,
     createdAt |-> toISOString(k.createdAt)]

\* serializeSession
serializeSession(s) ==
    [id |-> s.id, creator |-> s.creator, adminUserId |-> s.adminUserId,
     description |-> s.description,
     participants |-> [i \in DOMAIN s.participants |->
                          serializeParticipant(s.participants[i])],
     keywords |-> [i \in DOMAIN s.keywords |-> serializeKeyword(s.keywords[i])],
     consensus |-> s.consensus, status |-> s.status,
     createdAt |-> toISOString(s.createdAt),
     expiresAt |-> toISOString(s.expiresAt)]

\* broadcastKeywordAdded(sessionId, keywordId, io)
broadcastKeywordAdded(s, sessionId, keywordId) ==
    IF getSession(s, sessionId) = NoSession THEN <<>>
    ELSE IF ~MapHas(s.keywords, IdOf, keywordId) THEN <<>>
    ELSE LET keyword == MapGet(s.keywords, IdOf, keywordId)
             keywordData ==
                 [id |-> keyword.id, text |-> keyword.text,
                  category |-> keyword.category,
                  votes |-> [i \in DOMAIN keyword.votes |->
                                [userId |-> keyword.votes[i].userId,
                                 value |-> keyword.votes[i].value,
                                 timestamp |-> toISOString(keyword.votes[i].timestamp)]],
                  totalScore |-> keyword.totalScore, addedBy |-> keyword.addedBy,
                  createdAt |-> toISOString(keyword.createdAt)]
         IN  <<Payload(Event("room", "keyword-added", keywordId), keywordData)>>

\* broadcastVoteUpdate(sessionId, keywordId, io)
broadcastVoteUpdate(s, sessionId, keywordId) ==
    IF getSession(s, sessionId) = NoSession THEN <<>>
    ELSE IF ~MapHas(s.keywords, IdOf, keywordId) THEN <<>>
    ELSE LET keyword == MapGet(s.keywords, IdOf, keywordId)
             voteData ==
                 [keywordId |-> keyword.id,
                  votes |-> [i \in DOMAIN keyword.votes |->
                                [userId |-> keyword.votes[i].userId,
                                 value |-> keyword.votes[i].value,
                                 timestamp |-> toISOString(keyword.votes[i].timestamp)]],
                  totalScore |-> keyword.totalScore]
         IN  <<Payload(Event("room", "vote-updated", keywordId), voteData)>>

\* broadcastConsensusReached(sessionId, [keywordId], io)
broadcastConsensusReached(s, sessionId, keywordId) ==
    IF getSession(s, sessionId) = NoSession THEN <<>>
    ELSE LET consensusKeywords ==
                 IF MapHas(s.keywords, IdOf, keywordId)
                 THEN LET keyword == MapGet(s.keywords, IdOf, keywordId)
                      IN  <<[id |-> keyword.id, text |-> keyword.text,
                             category |-> keyword.category,
                             totalScore |-> keyword.totalScore]>>
                 ELSE <<>>
         IN  <<Payload(Event("room", "consensus-reached", keywordId),
                       [keywordIds |-> <<keywordId>>,
                        keywords |-> consensusKeywords,
                        timestamp |-> toISOString(now)])>>

\* broadcastSessionStats(sessionId, io); the payload, which no listener of
\* the browser reads, is left out
broadcastSessionStats(s, sessionId) ==
    IF getSession(s, sessionId) = NoSession THEN <<>>
    ELSE <<Event("room", "session-stats-updated", 0)>>

BadVoteRequest  == "UserId, keywordId, and value (1 or -1) are required"
BadVoteValue    == "Vote value must be 1 or -1"
BadKeywordRequest == "UserId, text, and category are required"
BadCategory     == "Invalid category"

\* the request check of POST /current/vote; 0 stands for a missing field
restVoteRejects(userId, keywordId, value) ==
    userId = 0 \/ keywordId = 0 \/ (value # 1 /\ value # -1)

\* POST /api/session/current/vote
restVote(userId, keywordId, value) ==
    /\ caller' = userId
    /\ IF restVoteRejects(userId, keywordId, value)
       THEN /\ last' = Ret("vote", BadVoteRequest, 0)
            /\ emitted' = <<Http(400)>>
            /\ UNCHANGED <<session, cleanupTimer, timers, now, nextUid, nextKid,
                           nextTimer, submitted>>
       ELSE /\ vote(SessionId, userId, keywordId, value)
            /\ emitted' = IF last'.ok
                          THEN broadcastVoteUpdate(session', SessionId, keywordId)
                               \o broadcastSessionStats(session', SessionId)
                               \o <<Payload(Http(200),
                                     LET keyword == MapGet(session'.keywords, IdOf, keywordId)
                                     IN  [keywordId |-> keywordId,
                                          totalScore |-> keyword.totalScore,
                                          votes |-> [i \in DOMAIN keyword.votes |->
                                                serializeVote(keyword.votes[i])]])>>
                          ELSE <<Http(400)>>

\* socket 'vote' that only rejects a missing value
socketVoteRejectsFalsy(value) == value = 0

\* the value check of the socket 'vote' handler
socketVoteRejects(value) == value # 1 /\ value # -1

\* socket.on('vote')
socketVote(sessionId, userId, keywordId, value) ==
    /\ caller' = userId
    /\ IF socketVoteRejects(value)
       THEN /\ last' = Ret("vote", BadVoteValue, 0)
            /\ emitted' = <<Event("caller", "error", 0)>>
            /\ UNCHANGED <<session, cleanupTimer, timers, now, nextUid, nextKid,
                           nextTimer, submitted>>
       ELSE /\ vote(sessionId, userId, keywordId, value)
            /\ emitted' =
                  IF last'.ok
                  THEN broadcastVoteUpdate(session', sessionId, keywordId)
                       \o (IF getSession(session', sessionId) # NoSession
                              /\ MapHas(session'.keywords, IdOf, keywordId)
                              /\ indexOf(session'.consensus.finalized, keywordId) > 0
                           THEN broadcastConsensusReached(session', sessionId, keywordId)
                           ELSE <<>>)
                  ELSE <<Event("caller", "error", 0)>>

\* POST /api/session/current/keywords; an empty text, user id 0 and category
\* None stand for missing fields
restAddKeyword(userId, text, category, maxTags) ==
    /\ caller' = userId
    /\ IF userId = 0 \/ text = <<>> \/ category = None
       THEN /\ last' = Ret("addKeyword", BadKeywordRequest, 0)
            /\ emitted' = <<Http(400)>>
            /\ UNCHANGED <<session, cleanupTimer, timers, now, nextUid, nextKid,
                           nextTimer, submitted>>
       ELSE IF category \notin Categories
       THEN /\ last' = Ret("addKeyword", BadCategory, 0)
            /\ emitted' = <<Http(400)>>
            /\ UNCHANGED <<session, cleanupTimer, timers, now, nextUid, nextKid,
                           nextTimer, submitted>>
       ELSE /\ addKeyword(SessionId, userId, trim(text), category, maxTags, FALSE)
            /\ emitted' = IF last'.ok
                          THEN broadcastKeywordAdded(session', SessionId, last'.arg)
                               \o broadcastSessionStats(session', SessionId)
                               \o <<Payload(Http(201),
                                     LET keyword == MapGet(session'.keywords, IdOf, last'.arg)
                                     IN  [id |-> keyword.id, text |-> keyword.text,
                                          category |-> keyword.category,
                                          addedBy |-> keyword.addedBy,
                                          createdAt |-> toISOString(keyword.createdAt)])>>
                          ELSE <<Http(400)>>

\* socket.on('add-keyword'): the handler reads result.keyword and
\* result.isDuplicate of what addKeyword returns, which is a Keyword (both
\* undefined) or null (reading a property of null throws a TypeError)
socketAddKeyword(sessionId, userId, text, category, maxTags) ==
    /\ caller' = userId
    /\ IF category \notin Categories
       THEN /\ last' = Ret("addKeyword", BadCategory, 0)
            /\ emitted' = <<Event("caller", "error", 0)>>
            /\ UNCHANGED <<session, cleanupTimer, timers, now, nextUid, nextKid,
                           nextTimer, submitted>>
       ELSE /\ addKeyword(sessionId, userId, text, category, maxTags, FALSE)
            /\ emitted' = IF last'.ok
                          THEN <<Event("caller", "error", 0)>>
                          ELSE <<Event("caller", "TypeError", 0)>>

\* DELETE /api/session/current
restDelete(userId) ==
    /\ caller' = userId
    /\ IF userId = 0
       THEN /\ last' = Ret("deleteSession", "User ID is required", 0)
            /\ emitted' = <<Http(400)>>
            /\ UNCHANGED <<session, cleanupTimer, timers, now, nextUid, nextKid,
                           nextTimer, submitted>>
       ELSE /\ deleteSession(SessionId, userId)
            /\ emitted' = IF last'.ok
                          THEN <<Payload(Event("room", "session-deleted", 0),
                                         [message |-> "Session has been deleted by the admin",
                                          adminName |-> "Admin"]),
                                 Http(200)>>
                          ELSE <<Http(403)>>

\* broadcastSessionUpdate(sessionId, io)
broadcastSessionUpdate(s, sessionId) ==
    IF getSession(s, sessionId) = NoSession THEN <<>>
    ELSE <<Payload(Event("room", "session-updated", 0), serializeSession(s))>>

\* POST /api/session/current/rejoin; userCode 0 stands for a missing code
restRejoin(userCode) ==
    /\ caller' = rejoinResult(session, SessionId, userCode).userId
    /\ IF userCode = 0
       THEN /\ last' = Ret("rejoinSession", "User code is required and must be 3 digits", 0)
            /\ emitted' = <<Http(400)>>
            /\ UNCHANGED <<session, cleanupTimer, timers, now, nextUid, nextKid,
                           nextTimer, submitted>>
       ELSE /\ rejoinSession(SessionId, userCode)
            /\ emitted' = IF last'.ok
                          THEN broadcastSessionUpdate(session, SessionId)
                               \o broadcastSessionStats(session, SessionId)
                               \o <<Payload(Http(200),
                                     [userId |-> rejoinResult(session, SessionId, userCode).userId,
                                      userCode |-> userCode,
                                      sessionData |-> serializeSession(session)])>>
                          ELSE <<Http(400)>>

\* broadcastParticipantCount that counts every participant with a socket id
broadcastParticipantCountAnyHandle(s, sessionId, connected) ==
    IF getSession(s, sessionId) = NoSession THEN <<>>
    ELSE <<Payload(Event("room", "participant-count-updated", 0),
               [total |-> Len(s.participants),
                online |-> Len(SelectSeq(s.participants, LAMBDA q : q.socketId # 0)),
                timestamp |-> toISOString(now)])>>

\* broadcastParticipantCount(sessionId, io), connected being the ids of the
\* sockets connected at the call: a participant is online when its socketId
\* is the id of a connected socket
broadcastParticipantCount(s, sessionId, connected) ==
    IF getSession(s, sessionId) = NoSession THEN <<>>
    ELSE <<Payload(Event("room", "participant-count-updated", 0),
               [total |-> Len(s.participants),
                online |-> Len(SelectSeq(s.participants, LAMBDA q :
                                  q.socketId # 0 /\ q.socketId \in connected)),
                timestamp |-> toISOString(now)])>>

\* the events of socket.on('join-session') that sends participant-joined to
\* the whole room, the joining socket included
joinSessionEventsToAll(s, userId) ==
    LET participant == MapGet(s.participants, IdOf, userId) IN
    << Payload(Event("room", "participant-joined", userId),
               [id |-> participant.id, name |-> participant.name,
                joinedAt |-> toISOString(participant.joinedAt),
                isCreator |-> participant.isCreator]),
       Payload(Event("caller", "session-updated", 0), serializeSession(s)),
       broadcastParticipantCount(s, s.id,
           connectedSockets \cup {MapGet(s.participants, IdOf, userId).socketId})[1] >>

\* what socket.on('join-session') sends once the socket is in the room:
\* participant-joined to the other sockets of the room, the serialized
\* session to the joining socket, the participant count to the room
joinSessionEvents(s, userId) ==
    LET participant == MapGet(s.participants, IdOf, userId) IN
    << Payload(Event("others", "participant-joined", userId),
               [id |-> participant.id, name |-> participant.name,
                joinedAt |-> toISOString(participant.joinedAt),
                isCreator |-> participant.isCreator]),
       Payload(Event("caller", "session-updated", 0), serializeSession(s)),
       broadcastParticipantCount(s, s.id,
           connectedSockets \cup {MapGet(s.participants, IdOf, userId).socketId})[1] >>

\* socket.on('join-session') on the socket socketId
socketJoinSession(sessionId, userId, socketId) ==
    /\ caller' = userId
    /\ IF getSession(session, sessionId) = NoSession
          \/ ~MapHas(session.participants, IdOf, userId)
       THEN /\ last' = Ret("join-session", "Invalid session or user", 0)
            /\ emitted' = <<Event("caller", "error", 0)>>
            /\ UNCHANGED session
       ELSE /\ session' = [session EXCEPT
                   !.participants[MapIndex(session.participants, IdOf, userId)].socketId
                       = socketId]
            /\ last' = Ret("join-session", None, userId)
            /\ emitted' = joinSessionEvents(session', userId)
    /\ UNCHANGED <<cleanupTimer, timers, now, nextUid, nextKid, nextTimer, submitted>>

\* io.on('connection'): the socket is stored in connectedSockets
socketConnect(socketId) ==
    /\ caller' = 0
    /\ last' = Ret("connect", None, socketId)
    /\ emitted' = <<>>
    /\ UNCHANGED <<session, cleanupTimer, timers, now, nextUid, nextKid,
                   nextTimer, submitted>>

\* socket.on('leave-session') on the socket socketId: the socket leaves the
\* room named sessionId and the other sockets of that room are told; only the
\* room named SessionId ever has sockets
socketLeaveSession(sessionId, userId, socketId) ==
    /\ caller' = userId
    /\ last' = Ret("leave-session", None, userId)
    /\ emitted' = IF sessionId = SessionId
                  THEN <<Payload(Event("others", "participant-left", userId), userId)>>
                  ELSE <<>>
    /\ UNCHANGED <<session, cleanupTimer, timers, now, nextUid, nextKid,
                   nextTimer, submitted>>

\* the index of the first participant whose socketId is socketId, 0 if none
boundParticipant(s, socketId) ==
    IF s.id = None
       \/ \A i \in DOMAIN s.participants : s.participants[i].socketId # socketId
    THEN 0
    ELSE CHOOSE i \in DOMAIN s.participants :
            /\ s.participants[i].socketId = socketId
            /\ \A j \in 1..(i - 1) : s.participants[j].socketId # socketId

\* socket.on('disconnect') that removes the participant bound to the socket
socketDisconnectDropsParticipant(socketId) ==
    LET i == boundParticipant(session, socketId) IN
    /\ caller' = 0
    /\ last' = Ret("disconnect", None, socketId)
    /\ IF i = 0
       THEN /\ emitted' = <<>>
            /\ UNCHANGED session
       ELSE /\ session' = [session EXCEPT !.participants =
                              SelectSeq(@, LAMBDA q : q.id # session.participants[i].id)]
            /\ emitted' =
                  <<Payload(Event("others", "participant-offline",
                                  session.participants[i].id),
                            [userId |-> session.participants[i].id,
                             name |-> session.participants[i].name])>>
                  \o broadcastParticipantCount(session', session.id,
                                               connectedSockets \ {socketId})
    /\ UNCHANGED <<cleanupTimer, timers, now, nextUid, nextKid, nextTimer, submitted>>

\* socket.on('disconnect') on the socket socketId: the socket leaves
\* connectedSockets; the first participant bound to it loses its socketId, the
\* room is told and the participant count is sent
socketDisconnect(socketId) ==
    LET i == boundParticipant(session, socketId) IN
    /\ caller' = 0
    /\ last' = Ret("disconnect", None, socketId)
    /\ IF i = 0
       THEN /\ emitted' = <<>>
            /\ UNCHANGED session
       ELSE /\ session' = [session EXCEPT !.participants[i].socketId = 0]
            /\ emitted' =
                  <<Payload(Event("others", "participant-offline",
                                  session.participants[i].id),
                            [userId |-> session.participants[i].id,
                             name |-> session.participants[i].name])>>
                  \o broadcastParticipantCount(session', session.id,
                                               connectedSockets \ {socketId})
    /\ UNCHANGED <<cleanupTimer, timers, now, nextUid, nextKid, nextTimer, submitted>>

\* POST /api/session/current/join
restJoin(name, draws, maxUsers) ==
    /\ IF TrimEnd(TrimStart(name)) = <<>>
       THEN /\ last' = Ret("joinSession", "Name is required", 0)
            /\ emitted' = <<Http(400)>>
            /\ UNCHANGED <<session, cleanupTimer, timers, now, nextUid, nextKid,
                           nextTimer, submitted>>
       ELSE /\ joinSession(SessionId, TrimEnd(TrimStart(name)), draws, maxUsers)
            /\ emitted' =
                  IF last'.ok
                  THEN broadcastSessionUpdate(session', SessionId)
                       \o broadcastSessionStats(session', SessionId)
                       \o <<Payload(Http(200),
                             [userId |-> last'.arg,
                              userCode |-> MapGet(session'.participants, IdOf,
                                                  last'.arg).userCode,
                              sessionData |-> serializeSession(session')])>>
                  ELSE IF last'.error = "session is full"
                  THEN <<Http(500)>>
                  ELSE <<Http(400)>>
    /\ caller' = last'.arg

\* POST /api/session/:sessionId/keywords-smart up to the await of the LLM:
\* the error it answers with, None when it goes on to await the LLM
smartAddError(s, sessionId, userId, text, suggestedCategory) ==
    IF userId = 0 \/ text = <<>> THEN "UserId and text are required"
    ELSE IF suggestedCategory # None /\ suggestedCategory \notin Categories
    THEN "Suggested category must be one of: time, location, food, activity"
    ELSE IF s.id = None \/ s.id # sessionId
            \/ ~MapHas(s.participants, IdOf, userId)
    THEN "Failed to add keyword. Check session and user ID."
    ELSE None

\* the first part of the request: it is answered 400, or awaits the LLM
smartAddStart(sessionId, userId, text, suggestedCategory) ==
    /\ caller' = userId
    /\ last' = Ret("addKeywordWithLLM",
                   smartAddError(session, sessionId, userId, text, suggestedCategory), 0)
    /\ emitted' = IF last'.ok THEN <<>> ELSE <<Http(400)>>
    /\ UNCHANGED <<session, cleanupTimer, timers, now, nextUid, nextKid,
                   nextTimer, submitted>>

\* the rest of the request that trusts the checks made before the await: it
\* adds to the session that is current now without looking for the user
smartAddFinishUnchecked(sessionId, userId, text, category, maxTags) ==
    /\ caller' = userId
    /\ IF ~HasSession \/ ~validateTag(trim(text)).isValid
       THEN /\ last' = Ret("addKeyword", "null", 0)
            /\ emitted' = <<Http(400)>>
            /\ UNCHANGED <<session, cleanupTimer, timers, now, nextUid, nextKid,
                           nextTimer, submitted>>
       ELSE LET r == addKeywordApply(session, userId, trim(text), category, nextKid, now) IN
            /\ r.created => nextKid <= maxTags
            /\ session' = r.session
            /\ nextKid' = IF r.created THEN nextKid + 1 ELSE nextKid
            /\ last' = Ret("addKeyword", None, r.keyword)
            /\ emitted' = <<Http(201)>>
            /\ UNCHANGED <<cleanupTimer, timers, now, nextUid, nextTimer, submitted>>

\* the rest of the request, when the LLM has answered or failed: category is
\* the category decided; addKeyword, then the broadcasts and the reply
smartAddFinish(sessionId, userId, text, category, maxTags) ==
    /\ caller' = userId
    /\ addKeyword(sessionId, userId, trim(text), category, maxTags, FALSE)
    /\ emitted' = IF last'.ok
                  THEN broadcastKeywordAdded(session', sessionId, last'.arg)
                       \o broadcastSessionStats(session', sessionId)
                       \o <<Payload(Http(201),
                             LET keyword == MapGet(session'.keywords, IdOf, last'.arg)
                             IN  [id |-> keyword.id, text |-> keyword.text,
                                  category |-> keyword.category,
                                  addedBy |-> keyword.addedBy,
                                  createdAt |-> toISOString(keyword.createdAt),
                                  llmCategorized |-> TRUE])>>
                  ELSE <<Http(400)>>

\* ------------------------------------------------------- the browser
\* setSession(session)
setSession(st, sessionData) == sessionData

\* { ...keyword, ...updates }
Spread(keyword, updates) ==
    [f \in DOMAIN keyword \cup DOMAIN updates |->
        IF f \in DOMAIN updates THEN updates[f] ELSE keyword[f]]

\* updateKeyword(keywordId, updates)
updateKeyword(st, keywordId, updates) ==
    IF st = NoReplica THEN st
    ELSE [st EXCEPT !.keywords =
             [i \in DOMAIN st.keywords |->
                 IF st.keywords[i].id = keywordId
                 THEN Spread(st.keywords[i], updates) ELSE st.keywords[i]]]

\* addKeyword(keyword) of the store
addKeywordToStore(st, keyword) ==
    IF st = NoReplica THEN st
    ELSE [st EXCEPT !.keywords = Append(@, keyword)]

\* addParticipant(participant)
addParticipant(st, participant) ==
    IF st = NoReplica THEN st
    ELSE IF \E i \in DOMAIN st.participants : st.participants[i].id = participant.id
    THEN st
    ELSE [st EXCEPT !.participants = Append(@, participant)]

\* [...new Set(ids)]: the ids in order, each once
RECURSIVE Unique(_)
Unique(ids) ==
    IF ids = <<>> THEN <<>>
    ELSE LET front == Unique(SubSeq(ids, 1, Len(ids) - 1))
             x     == ids[Len(ids)]
         IN  IF \E i \in DOMAIN front : front[i] = x THEN front
             ELSE Append(front, x)

\* sessionActions.handleConsensusReached(keywordIds)
handleConsensusReached(st, keywordIds) ==
    IF st = NoReplica THEN st
    ELSE [st EXCEPT
            !.consensus.finalized = Unique(@ \o keywordIds),
            !.consensus.pending =
                SelectSeq(@, LAMBDA id :
                    ~\E i \in DOMAIN keywordIds : keywordIds[i] = id)]

\* the socket listeners of the browser of user userId: the store after ev
onSocketEvent(st, userId, ev) ==
    IF ev.kind = "session-updated" THEN setSession(st, ev.data[1])
    ELSE IF ev.kind = "participant-joined" THEN addParticipant(st, ev.data[1])
    ELSE IF ev.kind = "keyword-added"
    THEN IF ev.data[1].addedBy # userId
         THEN addKeywordToStore(st, ev.data[1]) ELSE st
    ELSE IF ev.kind = "vote-updated"
    THEN IF st # NoReplica
            /\ \E i \in DOMAIN st.keywords : st.keywords[i].id = ev.data[1].keywordId
         THEN updateKeyword(st, ev.data[1].keywordId,
                            [totalScore |-> ev.data[1].totalScore])
         ELSE st
    ELSE IF ev.kind = "consensus-reached"
    THEN handleConsensusReached(st, ev.data[1].keywordIds)
    ELSE st

\* useRejoinSession, useAddKeyword and useVote once the reply is there: 200
\* with sessionData answers a rejoin, 201 an add, 200 a vote, anything else
\* is an error that only sets the error text
onHttpReply(st, reply) ==
    IF reply.arg = 200 /\ reply.data # <<>> /\ "sessionData" \in DOMAIN reply.data[1]
    THEN setSession(st, reply.data[1].sessionData)
    ELSE IF reply.arg = 201
    THEN addKeywordToStore(st,
             [id |-> reply.data[1].id, text |-> reply.data[1].text,
              category |-> reply.data[1].category,
              addedBy |-> reply.data[1].addedBy,
              createdAt |-> reply.data[1].createdAt,
              votes |-> <<>>, totalScore |-> 0])
    ELSE IF reply.arg = 200
    THEN updateKeyword(st, reply.data[1].keywordId,
             [totalScore |-> reply.data[1].totalScore,
              votes |-> [i \in DOMAIN reply.data[1].votes |->
                            [userId |-> reply.data[1].votes[i].userId,
                             value |-> reply.data[1].votes[i].value,
                             timestamp |-> reply.data[1].votes[i].timestamp]]])
    ELSE st

\* ------------------------------------------------------- the connections
\* the events of evs that reach the socket of browser c when the request
\* came from sender: those for the room if the socket is in it, those for
\* the others of the room unless it is the sender's, those for the caller
SocketEvents(cl, c, evs, sender) ==
    SelectSeq(evs, LAMBDA e :
        \/ e.to = "room" /\ cl[c].room
        \/ e.to = "others" /\ cl[c].room /\ c # sender
        \/ e.to = "caller" /\ e.kind # "http" /\ c = sender)

\* deliver that puts what it sends in front of what is in flight
deliverInFront(cl, evs, sender, stamp) ==
    [c \in DOMAIN cl |->
        [cl[c] EXCEPT
           !.inbox = [i \in DOMAIN SocketEvents(cl, c, evs, sender) |->
                         [event |-> SocketEvents(cl, c, evs, sender)[i],
                          seq |-> stamp]] \o @,
           !.http  = @ \o SelectSeq(evs, LAMBDA e :
                              e.to = "caller" /\ e.kind = "http" /\ c = sender)]]

\* the connections after a handler sent evs: a socket receives what is sent
\* to it in the order sent (stamp: the number of commits so far), the
\* browser that made the HTTP request its reply
deliver(cl, evs, sender, stamp) ==
    [c \in DOMAIN cl |->
        [cl[c] EXCEPT
           !.inbox = @ \o [i \in DOMAIN SocketEvents(cl, c, evs, sender) |->
                              [event |-> SocketEvents(cl, c, evs, sender)[i],
                               seq |-> stamp]],
           !.http  = @ \o SelectSeq(evs, LAMBDA e :
                              e.to = "caller" /\ e.kind = "http" /\ c = sender)]]

\* ------------------------------------------------------------------ inputs

SessionIds   == {SessionId, "other"}
Descriptions == {"weekend brunch"}

\* names: three that differ, a case variant, a padded variant, and invalid ones
CreatorName == <<"A","l">>
NamePool == << <<"B","o">>, <<"C","y">>, <<"D","i">>, <<"E","d">> >>
\* as many joiner names as there are user ids left after the creator's
JoinerNames == { NamePool[i] : i \in 1..(MaxUsers - 1) }
NameVariants == { <<"a","L">>, <<" ","A","l","\t">> }
BadNames == { <<>>, <<" ","a"," ">>, <<"A","!">>, [i \in 1..(MaxNameLen + 1) |-> "a"] }
\* the values Math.random is given in generateUserCode
CodeDraws == {CodeMin, CodeMax}

\* tag texts: valid ones, case and padding variants, rejected ones
Texts == { <<"a","b">>, <<"c","-","d">>, <<"e">> }
TextVariants == { <<"A","b">>, <<" ","a","b","\t">> }
BadTexts == { <<"A"," ","b">>, <<"c","-","d","-","-">> }

UserIds    == 1..MaxUsers
KeywordIds == 1..MaxTags

\* ------------------------------------------------------ the specification
\* Spec: the Store's command interface, every operation with its failures.
\* Each operation is called with the current session id and every combination
\* of its other arguments, and once with a session id that does not exist.
CreateSession == /\ Quiet
                 /\ \E d \in Descriptions, n \in {CreatorName, <<"A">>} :
                        createSession(d, n, {CodeMin})
JoinSession   == /\ Quiet
                 /\ \/ \E n \in JoinerNames \cup {<<"a","L">>} :
                          joinSession(SessionId, n, {CodeMin}, MaxUsers)
                    \/ joinSession("other", <<"B","o">>, {CodeMin}, MaxUsers)
RejoinSession == /\ Quiet
                 /\ \/ \E c \in {CodeMin, CodeMin + 1, CodeMax} :
                          rejoinSession(SessionId, c)
                    \/ rejoinSession("other", CodeMin)
DeleteSession == /\ Quiet
                 /\ \/ \E u \in UserIds : deleteSession(SessionId, u)
                    \/ deleteSession("other", 1)
AddKeyword    == /\ Quiet
                 /\ \/ \E u \in UserIds,
                          t \in {<<"a","b">>, <<"A","b">>, <<"c","-","d">>, <<"A"," ","b">>} :
                          addKeyword(SessionId, u, t, "time", MaxTags, FALSE)
                    \/ addKeyword("other", 1, <<"a","b">>, "time", MaxTags, FALSE)
Vote          == /\ Quiet
                 /\ \/ \E u \in UserIds, k \in KeywordIds, v \in VoteValues :
                          vote(SessionId, u, k, v)
                    \/ vote("other", 1, 1, 1)

Next == \/ CreateSession
        \/ JoinSession
        \/ RejoinSession
        \/ DeleteSession
        \/ AddKeyword
        \/ Vote

Spec == Init /\ [][Next]_vars

\* -------------------------------------------------------------- SpecJoin
\* identities only: names in every variant, two values of Math.random
JCreate == /\ Quiet
           /\ \E d \in Descriptions, n \in {CreatorName} \cup BadNames :
                  createSession(d, n, CodeDraws)
JJoin   == /\ Quiet
           /\ \/ \E n \in JoinerNames \cup NameVariants \cup BadNames :
                    joinSession(SessionId, n, CodeDraws, MaxUsers)
              \/ joinSession("other", NamePool[1], CodeDraws, MaxUsers)
JRejoin == /\ Quiet
           /\ \/ \E c \in {CodeMin, CodeMin + 1, CodeMin + 2, CodeMax} :
                    rejoinSession(SessionId, c)
              \/ rejoinSession("other", CodeMin)
JDelete == /\ Quiet
           /\ \/ \E u \in UserIds : deleteSession(SessionId, u)
              \/ deleteSession("other", 1)

NextJoin == JCreate \/ JJoin \/ JRejoin \/ JDelete

SpecJoin == Init /\ [][NextJoin]_vars

\* -------------------------------------------------------------- SpecTags
\* proposals: in a session just created, texts are added and voted on by the
\* creator (user 1) and by a user id that is not a participant (user 2)
TagCap == 2

InitTags ==
    /\ session = freshSession(1, "weekend brunch", CreatorName, CodeMin, 0)
    /\ cleanupTimer = 1
    /\ timers = {[id |-> 1, at |-> TTLHours]}
    /\ now = 0
    /\ nextUid = 2
    /\ nextKid = 1
    /\ nextTimer = 2
    /\ last = Ret("createSession", None, 1)
    /\ submitted = {}
    /\ emitted = <<>>
    /\ Offline

TAdd  == /\ Quiet
         /\ \E u \in 1..2, t \in Texts \cup {<<"A","b">>, <<"A"," ","b">>} :
                addKeyword(SessionId, u, t, "food", TagCap, FALSE)
TVote == /\ Quiet
         /\ \E u \in 1..2, k \in 1..TagCap, v \in VoteValues :
                vote(SessionId, u, k, v)

NextTags == TAdd \/ TVote

SpecTags == InitTags /\ [][NextTags]_vars

\* ------------------------------------------------------------- SpecDedup
\* deduplication: the creator (user 1) and a user id that is not a
\* participant (user 2) submit texts in every variant, and the history
\* variable `submitted` records them
DedupCap == 2

DAdd  == /\ Quiet
         /\ \E u \in 1..2, t \in Texts \cup TextVariants \cup BadTexts :
                addKeyword(SessionId, u, t, "food", DedupCap, TRUE)

NextDedup == DAdd

SpecDedup == InitTags /\ [][NextDedup]_vars

\* ------------------------------------------------------------- SpecCrowd
\* voting in a larger group: n participants have joined and the creator has
\* proposed one idea; everybody votes on it or proposes it again
CrowdSizes == {4, 5}

RECURSIVE crowdSession(_)
crowdSession(n) ==
    IF n = 1 THEN freshSession(1, "weekend brunch", CreatorName, CodeMin, 0)
    ELSE joinApply(crowdSession(n - 1), n, NamePool[n - 1], CodeMin + n - 1, 0)

InitCrowd ==
    \E n \in CrowdSizes :
        /\ session = addKeywordApply(crowdSession(n), 1, <<"a","b">>, "time", 1, 0).session
        /\ cleanupTimer = 1
        /\ timers = {[id |-> 1, at |-> TTLHours]}
        /\ now = 0
        /\ nextUid = n + 1
        /\ nextKid = 2
        /\ nextTimer = 2
        /\ last = Ret("addKeyword", None, 1)
        /\ submitted = {}
        /\ emitted = <<>>
    /\ Offline
        /\ Offline

CVote == /\ Quiet
         /\ \E u \in 1..Len(session.participants), v \in VoteValues :
                vote(SessionId, u, 1, v)
\* the next of the names joins, until the names are used up
CJoin == /\ Quiet
         /\ Len(session.participants) <= Len(NamePool)
         /\ joinSession(SessionId, NamePool[Len(session.participants)], {CodeMin},
                        Len(NamePool) + 1)
CAdd  == /\ Quiet
         /\ \E u \in 1..Len(session.participants) :
                addKeyword(SessionId, u, <<"A","b">>, "time", 1, FALSE)

NextCrowd == CVote \/ CAdd \/ CJoin

SpecCrowd == InitCrowd /\ [][NextCrowd]_vars

\* ------------------------------------------------------------- SpecRenew
\* replacement: while the clock advances a session is created, joined, given
\* an idea and votes, and then created again
RenewClock == 2

\* the clock advances by an hour
Tick(maxClock) ==
    /\ now < maxClock
    /\ now' = now + 1
    /\ last' = Ret("tick", None, 0)
    /\ Quiet
    /\ UNCHANGED <<session, cleanupTimer, timers, nextUid, nextKid, nextTimer,
                   submitted>>

RCreate == /\ Quiet
           /\ createSession("weekend brunch", CreatorName, {CodeMin})
RJoin   == /\ Quiet
           /\ joinSession(SessionId, NamePool[1], {CodeMin}, MaxUsers)
RAdd    == /\ Quiet
           /\ addKeyword(SessionId, session.creator, <<"a","b">>, "time", MaxTags, FALSE)
RVote   == /\ Quiet
           /\ \E v \in VoteValues : vote(SessionId, session.creator, 1, v)
RTick   == Tick(RenewClock)

NextRenew == RCreate \/ RJoin \/ RAdd \/ RVote \/ RTick

SpecRenew == Init /\ [][NextRenew]_vars

\* --------------------------------------------------------------- SpecApi
\* the REST routes and socket handlers for proposals and votes, called by
\* the two participants of a session (users 1 and 2), by a user id that is
\* not a participant (user 3) and without a user id (0)
VoteInputs == {1, -1, 0, 2}

InitApi ==
    /\ session = crowdSession(2)
    /\ cleanupTimer = 1
    /\ timers = {[id |-> 1, at |-> TTLHours]}
    /\ now = 0
    /\ nextUid = 3
    /\ nextKid = 1
    /\ nextTimer = 2
    /\ last = Ret("joinSession", None, 2)
    /\ submitted = {}
    /\ emitted = <<>>
    /\ Offline

ARestAdd ==
    /\ NoListeners
    /\ \/ \E u \in 1..3, t \in {<<"a","b">>, <<"A","b">>, <<"A"," ","b">>} :
             restAddKeyword(u, t, "food", MaxTags)
       \/ restAddKeyword(1, <<"a","b">>, "bogus", MaxTags)
       \/ restAddKeyword(0, <<"a","b">>, "food", MaxTags)
ASocketAdd ==
    /\ NoListeners
    /\ \/ \E u \in 1..3, t \in {<<"a","b">>, <<"A","b">>, <<"A"," ","b">>} :
             socketAddKeyword(SessionId, u, t, "food", MaxTags)
       \/ socketAddKeyword(SessionId, 1, <<"a","b">>, "bogus", MaxTags)
       \/ socketAddKeyword("other", 1, <<"a","b">>, "food", MaxTags)
ARestVote ==
    /\ NoListeners
    /\ \E u \in 0..3, k \in 1..MaxTags, v \in VoteInputs :
             restVote(u, k, v)
ASocketVote ==
    /\ NoListeners
    /\ \/ \E u \in 1..3, k \in 1..MaxTags, v \in VoteInputs :
             socketVote(SessionId, u, k, v)
       \/ socketVote("other", 1, 1, 1)

NextApi == ARestAdd \/ ASocketAdd \/ ARestVote \/ ASocketVote

SpecApi == InitApi /\ [][NextApi]_vars

\* ------------------------------------------------------------ SpecExpiry
\* the life of a session: it is created and joined, the admin or somebody
\* else asks for its deletion, the clock advances and the timers fire
ExpiryClock == 26

XCreate == /\ Quiet
           /\ now + TTLHours < ExpiryClock
           /\ createSession("weekend brunch", CreatorName, {CodeMin})
XJoin   == /\ Quiet
           /\ joinSession(SessionId, NamePool[1], {CodeMin}, MaxUsers)
XDelete == /\ NoListeners
           /\ \E u \in 0..MaxUsers : restDelete(u)
XTick   == Tick(ExpiryClock)
XTimer  == TimerFire
XSweep  == Sweep

NextExpiry == XCreate \/ XJoin \/ XDelete \/ XTick \/ XTimer \/ XSweep

SpecExpiry == Init /\ [][NextExpiry]_vars

\* the clock advances and both timers fire when they are due
SpecExpiryFair ==
    /\ Init /\ [][NextExpiry]_vars
    /\ WF_vars(XTick) /\ WF_vars(XTimer) /\ WF_vars(XSweep)

\* -------------------------------------------------------------- SpecSync
\* the session of users 1 and 2 and their sockets: a socket joins the room;
\* votes and adds arrive through the REST routes, as socket commands and as
\* smart adds that await the LLM; what is sent travels to each socket in
\* order and is received one event at a time
SyncTags    == 1    \* keyword ids handed out
InboxCap    == 2    \* a request is served while at most this many events
                    \* are in flight to each socket
SyncCommits == 2    \* Store mutations committed

InitSync ==
    /\ session = crowdSession(2)
    /\ cleanupTimer = 1
    /\ timers = {[id |-> 1, at |-> TTLHours]}
    /\ now = 0
    /\ nextUid = 3
    /\ nextKid = 1
    /\ nextTimer = 2
    /\ last = Ret("joinSession", None, 2)
    /\ submitted = {}
    /\ emitted = <<>>
    /\ Offline

\* a request can be served
Ready(maxCommits) ==
    /\ commits < maxCommits
    /\ \A c \in ClientIds : Len(clients[c].inbox) <= InboxCap

\* the Store mutation of the step, if any, is counted
Counted == commits' = IF last'.ok /\ last'.op \in {"vote", "addKeyword"}
                      THEN commits + 1 ELSE commits

\* what the handler sent is on its way
Sent(sender) == clients' = deliver(clients, emitted', sender, commits')

\* the socket of c, connected, sends join-session
SJoinRoom ==
    \E c \in ClientIds :
        /\ \A d \in ClientIds : Len(clients[d].inbox) <= InboxCap
        /\ socketJoinSession(SessionId, c, c)
        /\ UNCHANGED commits
        /\ clients' = deliver(enterRoom(clients, c, c, last'.ok),
                              emitted', c, commits)

\* POST /current/rejoin with a user code, or none, from outside the browsers
SRejoin ==
    \E code \in {0} \cup {session.participants[i].userCode :
                             i \in DOMAIN session.participants} :
        /\ \A d \in ClientIds : Len(clients[d].inbox) <= InboxCap
        /\ restRejoin(code)
        /\ UNCHANGED commits
        /\ Sent(0)

\* POST /current/keywords for user u, from outside the browsers
SRestAdd ==
    \E u \in ClientIds :
        /\ Ready(SyncCommits)
        /\ restAddKeyword(u, <<"a","b">>, "food", SyncTags)
        /\ Counted /\ Sent(0)

\* POST /current/vote for user u, from outside the browsers
SRestVote ==
    \E u \in ClientIds, k \in 1..SyncTags, v \in VoteValues :
        /\ Ready(SyncCommits)
        /\ restVote(u, k, v)
        /\ Counted /\ Sent(0)

\* the socket of c sends vote
SSocketVote ==
    \E c \in ClientIds, k \in 1..SyncTags, v \in VoteValues :
        /\ Ready(SyncCommits)
        /\ clients[c].room
        /\ socketVote(SessionId, c, k, v)
        /\ Counted /\ Sent(c)

\* the socket of c sends add-keyword
SSocketAdd ==
    \E c \in ClientIds :
        /\ Ready(SyncCommits)
        /\ clients[c].room
        /\ socketAddKeyword(SessionId, c, <<"a","b">>, "food", SyncTags)
        /\ Counted /\ Sent(c)

\* a smart add for user u arrives, from outside the browsers
SSmartStart ==
    \E u \in ClientIds :
        /\ Ready(SyncCommits)
        /\ clients[u].smart = <<>>
        /\ smartAddStart(SessionId, u, <<"a","b">>, None)
        /\ UNCHANGED commits
        /\ clients' = [clients EXCEPT
               ![u].smart = IF last'.ok THEN <<[text |-> <<"a","b">>]>> ELSE @]

\* the LLM has answered, or failed, for the smart add of user u
SSmartFinish ==
    \E u \in ClientIds, category \in {"food", "activity"} :
        /\ Ready(SyncCommits)
        /\ clients[u].smart # <<>>
        /\ smartAddFinish(SessionId, u, clients[u].smart[1].text, category, SyncTags)
        /\ Counted
        /\ clients' = deliver([clients EXCEPT ![u].smart = <<>>],
                              emitted', 0, commits')

\* the next event in flight reaches the socket of c
SReceive ==
    \E c \in ClientIds :
        /\ clients[c].inbox # <<>>
        /\ clients' = [clients EXCEPT
               ![c].inbox = Tail(@),
               ![c].seen = clients[c].inbox[1].seq]
        /\ caller' = 0
        /\ last' = Ret("socket-event", None, c)
        /\ emitted' = <<>>
        /\ UNCHANGED <<session, cleanupTimer, timers, now, nextUid, nextKid,
                       nextTimer, submitted, commits>>

NextSync == \/ SJoinRoom \/ SRejoin \/ SRestAdd \/ SRestVote \/ SSocketVote
            \/ SSocketAdd \/ SSmartStart \/ SSmartFinish \/ SReceive

SpecSync == InitSync /\ [][NextSync]_vars

\* ----------------------------------------------------------- SpecBrowser
\* the session of users 1 and 2 and their browsers: a browser loads the
\* session, joins the room with its socket, adds and votes through the REST
\* routes (useAddKeyword, useVote), and applies to its store each event and
\* each reply that reaches it
BrowserCommits == 2    \* Store mutations committed

BrowserTexts == {<<"a","b">>, <<"A","b">>}

\* the user of browser c returns with a user code (useRejoinSession)
BOpen ==
    \E c \in ClientIds :
        /\ \A d \in ClientIds : Len(clients[d].inbox) <= InboxCap
        /\ clients[c].session = NoReplica /\ clients[c].http = <<>>
        /\ restRejoin(MapGet(session.participants, IdOf, c).userCode)
        /\ UNCHANGED commits
        /\ Sent(c)

\* its socket sends join-session
BJoinRoom ==
    \E c \in ClientIds :
        /\ clients[c].session # NoReplica /\ ~clients[c].room
        /\ socketJoinSession(SessionId, c, c)
        /\ UNCHANGED commits
        /\ clients' = deliver(enterRoom(clients, c, c, last'.ok),
                              emitted', c, commits)

\* the browser of c adds an idea (useAddKeyword)
BAdd ==
    \E c \in ClientIds, t \in BrowserTexts :
        /\ Ready(BrowserCommits)
        /\ clients[c].session # NoReplica /\ clients[c].http = <<>>
        /\ restAddKeyword(c, t, "food", SyncTags)
        /\ Counted /\ Sent(c)

\* the browser of c votes (useVote)
BVote ==
    \E c \in ClientIds, k \in 1..SyncTags, v \in VoteValues :
        /\ Ready(BrowserCommits)
        /\ clients[c].session # NoReplica /\ clients[c].http = <<>>
        /\ restVote(c, k, v)
        /\ Counted /\ Sent(c)

\* the next event in flight reaches the browser of c
BSocket ==
    \E c \in ClientIds :
        /\ clients[c].inbox # <<>>
        /\ clients' = [clients EXCEPT
               ![c].inbox = Tail(@),
               ![c].seen = clients[c].inbox[1].seq,
               ![c].session = onSocketEvent(@, c, clients[c].inbox[1].event)]
        /\ caller' = 0
        /\ last' = Ret("socket-event", None, c)
        /\ emitted' = <<>>
        /\ UNCHANGED <<session, cleanupTimer, timers, now, nextUid, nextKid,
                       nextTimer, submitted, commits>>

\* the reply to its HTTP request reaches the browser of c
BHttp ==
    \E c \in ClientIds :
        /\ clients[c].http # <<>>
        /\ clients' = [clients EXCEPT
               ![c].http = Tail(@),
               ![c].session = onHttpReply(@, clients[c].http[1])]
        /\ caller' = 0
        /\ last' = Ret("http-reply", None, c)
        /\ emitted' = <<>>
        /\ UNCHANGED <<session, cleanupTimer, timers, now, nextUid, nextKid,
                       nextTimer, submitted, commits>>

NextBrowser == BOpen \/ BJoinRoom \/ BAdd \/ BVote \/ BSocket \/ BHttp

SpecBrowser == InitSync /\ [][NextBrowser]_vars

\* ------------------------------------------------------------- SpecSmart
\* smart adds in the life of a session: while the session is created,
\* joined, deleted, replaced and expires, users 1 and 2 ask for a smart add
\* and the LLM answers, or fails, some time later
SmartClock == 25

\* the clock advances by more than the life of a session
Leap(maxClock) ==
    /\ now + TTLHours + 1 <= maxClock
    /\ now' = now + TTLHours + 1
    /\ last' = Ret("tick", None, 0)
    /\ Quiet
    /\ UNCHANGED <<session, cleanupTimer, timers, nextUid, nextKid, nextTimer,
                   submitted>>

MCreate == /\ Quiet
           /\ createSession("weekend brunch", CreatorName, {CodeMin})
MLeap   == Leap(SmartClock)

MStart ==
    \E u \in ClientIds :
        /\ clients[u].smart = <<>>
        /\ smartAddStart(SessionId, u, <<"a","b">>, None)
        /\ UNCHANGED commits
        /\ clients' = [clients EXCEPT
               ![u].smart = IF last'.ok
                            THEN <<[text |-> <<"a","b">>, creator |-> session.creator]>>
                            ELSE @]

MFinish ==
    \E u \in ClientIds, category \in {"food", "activity"} :
        /\ clients[u].smart # <<>>
        /\ smartAddFinish(SessionId, u, clients[u].smart[1].text, category, MaxTags)
        /\ UNCHANGED commits
        /\ clients' = [clients EXCEPT ![u].smart = <<>>]

NextSmart == \/ MCreate \/ XJoin \/ XDelete \/ MLeap \/ XTimer \/ XSweep
             \/ MStart \/ MFinish

SpecSmart == Init /\ [][NextSmart]_vars

\* -------------------------------------------------------------- SpecRoom
\* Two sockets connect, join the room as a user, leave it and disconnect,
\* while sessions are created, joined, filled and deleted over REST.

RoomTags  == 1    \* keyword ids handed out
RoomInbox == 0    \* a request is served while at most this many events are
                  \* in flight to each socket
RoomUsers == 0..MaxUsers    \* user ids sent by a socket; 0 is no one's id

\* a request can be served
Drained == \A c \in ClientIds : Len(clients[c].inbox) <= RoomInbox

\* a socket connects
NConnect ==
    \E k \in ClientIds :
        /\ ~clients[k].open
        /\ socketConnect(k)
        /\ UNCHANGED commits
        /\ clients' = [clients EXCEPT ![k].open = TRUE]

\* a connected socket sends join-session
NJoinRoom ==
    \E k \in ClientIds, sessionId \in SessionIds, u \in RoomUsers :
        /\ clients[k].open /\ Drained
        /\ socketJoinSession(sessionId, u, k)
        /\ UNCHANGED commits
        /\ clients' = deliver(enterRoom(clients, k, u, last'.ok), emitted', k, commits)

\* the connections after the socket socketId left the room named sessionId
leaveRoom(cl, socketId, sessionId) ==
    IF sessionId = SessionId
    THEN [cl EXCEPT ![socketId].room = FALSE, ![socketId].users = {}]
    ELSE cl

\* a connected socket sends leave-session for a user it joined for
NLeave ==
    \E k \in ClientIds, sessionId \in SessionIds :
        \E u \in IF clients[k].users = {} THEN {0} ELSE clients[k].users :
            /\ clients[k].open /\ Drained
            /\ socketLeaveSession(sessionId, u, k)
            /\ UNCHANGED commits
            /\ clients' = deliver(leaveRoom(clients, k, sessionId), emitted', k, commits)

\* a connected socket disconnects: it is in no room any more and what was in
\* flight to it is lost
NDisconnect ==
    \E k \in ClientIds :
        /\ clients[k].open /\ Drained
        /\ socketDisconnect(k)
        /\ UNCHANGED commits
        /\ clients' = deliver([clients EXCEPT ![k] = closedClient],
                              emitted', k, commits)

\* POST /create
NCreate == /\ nextUid <= MaxUsers
           /\ MCreate

\* POST /current/join
NJoin ==
    /\ Drained
    /\ restJoin(NamePool[1], {CodeMin}, MaxUsers)
    /\ UNCHANGED commits
    /\ Sent(0)

\* POST /current/keywords
NAdd ==
    \E u \in 1..MaxUsers :
        /\ Drained
        /\ restAddKeyword(u, <<"a","b">>, "food", RoomTags)
        /\ UNCHANGED commits
        /\ Sent(0)

\* DELETE /current
NDelete ==
    \E u \in 0..MaxUsers :
        /\ Drained
        /\ restDelete(u)
        /\ UNCHANGED commits
        /\ Sent(0)

\* a socket takes the event at the head of what is in flight to it
NReceive == SReceive

NextRoom == \/ NConnect \/ NJoinRoom \/ NLeave \/ NDisconnect
            \/ NCreate \/ NJoin \/ NAdd \/ NDelete \/ NReceive

SpecRoom == Init /\ [][NextRoom]_vars

\* --------------------------------------------------------- SpecReconnect
\* the session of users 1 and 2 and their browsers, whose sockets connect,
\* drop and connect again while useSessionConnection runs in App and in
\* SessionPage
\* every browser has taken what was sent to it
Calm == \A d \in ClientIds : clients[d].inbox = <<>> /\ clients[d].http = <<>>

\* the hooks of browser c that are mounted
mounted(cl, c) == IF cl[c].page THEN Hooks ELSE {"App"}

\* the user of browser c returns with a user code (useRejoinSession)
POpen == BOpen

\* the reply reaches the browser of c: session and user are set, the effects
\* of the mounted hooks are due
PHttp ==
    \E c \in ClientIds :
        /\ clients[c].http # <<>>
        /\ clients' = [clients EXCEPT
               ![c].http = Tail(@),
               ![c].session = onHttpReply(@, clients[c].http[1]),
               ![c].render = mounted(clients, c)]
        /\ caller' = 0
        /\ last' = Ret("http-reply", None, c)
        /\ emitted' = <<>>
        /\ UNCHANGED <<session, cleanupTimer, timers, now, nextUid, nextKid,
                       nextTimer, submitted, commits>>

\* the next event in flight reaches the browser of c; if it changes the
\* session of the store the effects of the mounted hooks are due
takeEvent(c) ==
    /\ clients[c].inbox # <<>>
    /\ clients' = [clients EXCEPT
           ![c].inbox = Tail(@),
           ![c].seen = clients[c].inbox[1].seq,
           ![c].session = onSocketEvent(@, c, clients[c].inbox[1].event),
           ![c].render =
               IF onSocketEvent(clients[c].session, c, clients[c].inbox[1].event)
                     # clients[c].session
               THEN mounted(clients, c) ELSE @]
    /\ caller' = 0
    /\ last' = Ret("socket-event", None, c)
    /\ emitted' = <<>>
    /\ UNCHANGED <<session, cleanupTimer, timers, now, nextUid, nextKid,
                   nextTimer, submitted, commits>>

PSocket == \E c \in ClientIds : takeEvent(c)

\* socketService.connect() of the first effect has its connection: the
\* server stores the socket, the 'connect' listener sets isConnected and the
\* effects of the mounted hooks are due
PConnect ==
    \E c \in ClientIds :
        /\ clients[c].session # NoReplica /\ ~clients[c].open
        /\ Calm
        /\ socketConnect(c)
        /\ UNCHANGED commits
        /\ clients' = [clients EXCEPT ![c].open = TRUE,
                                      ![c].render = mounted(clients, c)]

\* the connection of browser c drops: the server runs its disconnect
\* handler, the 'disconnect' listener clears isConnected and the effects of
\* the mounted hooks are due
PDrop ==
    \E c \in ClientIds :
        /\ clients[c].open
        /\ Calm
        /\ socketDisconnect(c)
        /\ UNCHANGED commits
        /\ clients' = deliver([clients EXCEPT ![c].open = FALSE,
                                              ![c].room = FALSE,
                                              ![c].users = {},
                                              ![c].inbox = <<>>,
                                              ![c].render = mounted(clients, c)],
                              emitted', c, commits)

\* an effect run that does not reach socketService.joinSession
noJoin(c) ==
    /\ caller' = 0
    /\ last' = Ret("effect", None, c)
    /\ emitted' = <<>>
    /\ UNCHANGED <<session, cleanupTimer, timers, now, nextUid, nextKid,
                   nextTimer, submitted>>

\* the second effect of useSessionConnection in one hook of browser c: with
\* a session, a user and a connection, and unless hasJoinedRef holds the key
\* of this session and user, the socket sends join-session and the key is kept
joinEffect(c, hook) ==
    /\ IF clients[c].session # NoReplica /\ clients[c].open
          /\ hook \notin clients[c].joined
       THEN /\ socketJoinSession(clients[c].session.id, c, c)
            /\ clients' = deliver([enterRoom(clients, c, c, last'.ok) EXCEPT
                                      ![c].joined = @ \cup {hook},
                                      ![c].render = @ \ {hook}],
                                  emitted', c, commits)
       ELSE /\ noJoin(c)
            /\ clients' = [clients EXCEPT ![c].render = @ \ {hook}]
    /\ UNCHANGED commits

\* the effects that are due in one hook of browser c run
PEffect(c, hook) ==
    /\ hook \in clients[c].render
    /\ joinEffect(c, hook)

\* the browser of c shows SessionPage: the effects of its hook run in order,
\* the second joins if there is a connection, the third clears hasJoinedRef
PMount ==
    \E c \in ClientIds :
        /\ clients[c].session # NoReplica /\ ~clients[c].page
        /\ Calm
        /\ IF clients[c].open
           THEN /\ socketJoinSession(clients[c].session.id, c, c)
                /\ clients' = deliver([enterRoom(clients, c, c, last'.ok) EXCEPT
                                          ![c].page = TRUE],
                                      emitted', c, commits)
           ELSE /\ noJoin(c)
                /\ clients' = [clients EXCEPT ![c].page = TRUE]
        /\ UNCHANGED commits

NextReconnect == \/ POpen \/ PHttp \/ PSocket \/ PConnect \/ PDrop \/ PMount
                 \/ \E c \in ClientIds, hook \in Hooks : PEffect(c, hook)

SpecReconnect == InitSync /\ [][NextReconnect]_vars

\* the browser runs the listener of each event that has arrived, and React
\* runs the effects that are due
SpecReconnectFair ==
    /\ SpecReconnect
    /\ \A c \in ClientIds : WF_vars(takeEvent(c))
    /\ \A c \in ClientIds, hook \in Hooks : WF_vars(PEffect(c, hook))

\* -------------------------------------------------------------- SpecText
\* tag texts: a text is typed (every string over TextChars up to TextLen
\* characters, and the examples of the documentation); it is validated,
\* normalized, replaced by the suggestion it was answered with, added by the
\* creator, and a stored text is typed again
TextLen == 4

TextChars == {"a", "B", "-", " ", "1"}

\* VALID_TAG_EXAMPLES, INVALID_TAG_EXAMPLES and Test Scenario 3
CoffeeShop == <<"c","o","f","f","e","e"," ","s","h","o","p">>
CoffeeShopTag == <<"c","o","f","f","e","e","-","s","h","o","p">>
FourLetters == <<"a","-","b","-","c","-","d">>
ThreeLetters == <<"a","-","b","-","c">>
SaturdayMeetup ==
    <<"s","a","t","u","r","d","a","y"," ","m","o","r","n","i","n","g"," ",
      "c","o","f","f","e","e"," ","m","e","e","t","u","p">>
SaturdayTag ==
    <<"s","a","t","u","r","d","a","y","-","m","o","r","n","i","n","g","-",
      "c","o","f","f","e","e">>
PizzaAndBeer == <<"p","i","z","z","a"," ","&"," ","b","e","e","r">>
PaddedWeekend == <<"-","-","w","e","e","k","e","n","d","-","-">>
TabbedTag == <<"\t","A","-","b","-","C"," ">>

TextExamples == {CoffeeShop, CoffeeShopTag, FourLetters, ThreeLetters,
                 SaturdayMeetup, SaturdayTag, PizzaAndBeer, PaddedWeekend,
                 TabbedTag}

TextInputs == TextExamples \cup UNION {[1..n -> TextChars] : n \in 0..TextLen}

InitText ==
    /\ session = freshSession(1, "weekend brunch", CreatorName, CodeMin, 0)
    /\ cleanupTimer = 1
    /\ timers = {[id |-> 1, at |-> TTLHours]}
    /\ now = 0
    /\ nextUid = 2
    /\ nextKid = 1
    /\ nextTimer = 2
    /\ last = Ret("createSession", None, 1)
    /\ \E t \in TextInputs : submitted = {t}
    /\ emitted = <<>>
    /\ Offline

\* the steps of SpecText that leave the Store alone
TextOnly == UNCHANGED <<session, cleanupTimer, timers, now, nextUid, nextKid,
                        nextTimer>>

\* validateTag(text) on the text typed
VValidate ==
    \E t \in submitted :
        /\ last' = Ret("validateTag", validateTag(t).error, validateTag(t))
        /\ UNCHANGED submitted
        /\ TextOnly /\ Quiet

\* normalizeTag(text) on the text typed; the result is what is typed next
VNormalize ==
    \E t \in submitted :
        /\ last' = Ret("normalizeTag", None, normalizeTag(t))
        /\ submitted' = {normalizeTag(t)}
        /\ TextOnly /\ Quiet

\* getTagErrorMessage(result): the user types the suggestion of the message
VSuggest ==
    /\ last.op = "validateTag" /\ ~last.ok /\ last.arg.hasSuggestion
    /\ last' = Ret("getTagErrorMessage", last.error, last.arg)
    /\ submitted' = {last.arg.suggestion}
    /\ TextOnly /\ Quiet

\* addKeyword with the text typed, by the creator
VAdd ==
    \E t \in submitted :
        /\ addKeyword(SessionId, 1, t, "food", TagCap, FALSE)
        /\ Quiet

\* the text of a stored tag is typed
VRetype ==
    \E i \in DOMAIN session.keywords :
        /\ submitted # {session.keywords[i].text}
        /\ last' = Ret("retype", None, session.keywords[i].id)
        /\ submitted' = {session.keywords[i].text}
        /\ TextOnly /\ Quiet

NextText == VValidate \/ VNormalize \/ VSuggest \/ VAdd \/ VRetype

SpecText == InitText /\ [][NextText]_vars

\* ================================================================ claims
Pending   == session.consensus.pending
Finalized == session.consensus.finalized

InSeq(x, seq) == \E i \in DOMAIN seq : seq[i] = x
NoRepeats(seq) == \A i, j \in DOMAIN seq : seq[i] = seq[j] => i = j

\* the keyword with id k in session s
TagOf(s, k) == s.keywords[CHOOSE i \in DOMAIN s.keywords : s.keywords[i].id = k]
TagIds(s)   == { s.keywords[i].id : i \in DOMAIN s.keywords }
UserIdsOf(s) == { s.participants[i].id : i \in DOMAIN s.participants }

Plus(tag)  == { i \in DOMAIN tag.votes : tag.votes[i].value = 1 }
Minus(tag) == { i \in DOMAIN tag.votes : tag.votes[i].value = -1 }
Voters(tag) == { tag.votes[i].userId : i \in DOMAIN tag.votes }
\* the vote of user u on the tag, 0 when u has not voted
VoteBy(tag, u) == IF u \in Voters(tag)
                  THEN tag.votes[CHOOSE i \in DOMAIN tag.votes :
                                     tag.votes[i].userId = u].value
                  ELSE 0
\* the votes without their timestamps
Stances(tag) == [i \in DOMAIN tag.votes |->
                    <<tag.votes[i].userId, tag.votes[i].value>>]

\* at least 60% of the participants voted +1 and less than 25% voted -1
ThresholdMet(s, k) ==
    /\ 100 * Cardinality(Plus(TagOf(s, k))) >= 60 * Len(s.participants)
    /\ 100 * Cardinality(Minus(TagOf(s, k))) < 25 * Len(s.participants)

C2_Partition ==
    HasSession =>
        /\ NoRepeats(Pending \o Finalized)
        /\ { (Pending \o Finalized)[i] : i \in DOMAIN (Pending \o Finalized) }
               = TagIds(session)
        /\ NoRepeats([i \in DOMAIN session.keywords |-> session.keywords[i].id])

\* two tags, one in each list, after a vote
C2_Witness ==
    /\ HasSession /\ last.op = "vote" /\ last.ok
    /\ Len(Pending) = 1 /\ Len(Finalized) = 1

\* C3: within one session a finalized tag id stays in finalized and out of
\* pending, whatever operation is performed.
C3_Ratchet ==
    [][ (HasSession /\ session'.id # None /\ session'.creator = session.creator)
        => /\ Len(session'.consensus.finalized) >= Len(Finalized)
           /\ SubSeq(session'.consensus.finalized, 1, Len(Finalized)) = Finalized
           /\ \A i \in DOMAIN Finalized :
                 ~InSeq(Finalized[i], session'.consensus.pending) ]_vars

\* a finalized tag whose votes no longer meet the threshold, after a vote
C3_Witness ==
    /\ HasSession /\ last.op = "vote" /\ last.ok
    /\ InSeq(last.arg, Finalized)
    /\ ~ThresholdMet(session, last.arg)
    /\ Minus(TagOf(session, last.arg)) # {}

\* C4: every tag holds at most one vote per participant and its totalScore
\* is the sum of its votes; flipping +1 to -1 lowers the score by exactly 2
\* and keeps the number of votes; re-adding an idea one has endorsed keeps
\* the number of votes.
C4_VotesAndScore ==
    HasSession =>
        \A n \in DOMAIN session.keywords :
            LET tag == session.keywords[n] IN
            /\ NoRepeats([i \in DOMAIN tag.votes |-> tag.votes[i].userId])
            /\ Plus(tag) \cup Minus(tag) = DOMAIN tag.votes
            /\ tag.totalScore = Cardinality(Plus(tag)) - Cardinality(Minus(tag))
            /\ \A u \in UserIdsOf(session) :
                  VoteBy(tag, u) = 1 =>
                     LET flipped == TagOf(voteApply(session, u, tag.id, -1, now),
                                          tag.id)
                         added   == addKeywordApply(session, u, tag.text,
                                                    tag.category, nextKid, now)
                     IN  /\ flipped.totalScore = tag.totalScore - 2
                         /\ Len(flipped.votes) = Len(tag.votes)
                         /\ VoteBy(flipped, u) = -1
                         /\ ~added.created
                         /\ Len(TagOf(added.session, tag.id).votes) = Len(tag.votes)

\* a tag with a +1 and a -1 from two participants, after a vote
C4_Witness ==
    /\ HasSession /\ last.op = "vote" /\ last.ok
    /\ Cardinality(Plus(TagOf(session, last.arg))) = 1
    /\ Cardinality(Minus(TagOf(session, last.arg))) = 1

\* C5: voting a second time with the same participant, tag and value leaves
\* the tag's score, its voters and every recorded value as the first call
\* left them.
C5_VoteIdempotent ==
    HasSession =>
        \A u \in UserIdsOf(session), k \in TagIds(session), v \in VoteValues :
            LET once  == voteApply(session, u, k, v, now)
                twice == voteApply(once, u, k, v, now)
            IN  /\ voteError(once, SessionId, u, k) = None
                /\ TagOf(twice, k).totalScore = TagOf(once, k).totalScore
                /\ Stances(TagOf(twice, k)) = Stances(TagOf(once, k))
                /\ twice.consensus = once.consensus

\* a tag on which both participants have voted, after a vote
C5_Witness ==
    /\ HasSession /\ last.op = "vote" /\ last.ok
    /\ Len(TagOf(session, last.arg).votes) = 2

\* the texts of the tags, in map order
TagTexts == [i \in DOMAIN session.keywords |-> session.keywords[i].text]

\* the submitted texts that validateTag accepts
Accepted == { t \in submitted : validateTag(t).isValid }

\* C6 as stated: no two tags share a canonical text, and there are as many
\* tags as distinct normalized forms among the texts submitted.
C6_Original ==
    HasSession =>
        /\ NoRepeats(TagTexts)
        /\ Len(session.keywords)
               = Cardinality({ normalizeTag(t) : t \in submitted })

\* C6 (amended): no two tags share a canonical text, and there are as many
\* tags as distinct normalized forms among the submitted texts that
\* validateTag accepts; the tags' texts are exactly those forms.
C6_Dedup ==
    HasSession =>
        /\ NoRepeats(TagTexts)
        /\ Len(session.keywords)
               = Cardinality({ normalizeTag(t) : t \in Accepted })
        /\ Range(TagTexts) = { toLowerCase(trim(t)) : t \in Accepted }

\* two tags after the submission of a case variant, a padded variant and a
\* rejected text
C6_Witness ==
    /\ HasSession /\ last.op = "addKeyword"
    /\ Len(session.keywords) = 2
    /\ {<<"a","b">>, <<"A","b">>, <<" ","a","b","\t">>, <<"c","-","d">>,
        <<"A"," ","b">>} \subseteq submitted

\* what is left of a session when the keywords and the pending list are
\* set aside
Frame(s) == [s EXCEPT !.keywords = <<>>, !.consensus.pending = <<>>]

NormName(n) == toLowerCase(trim(n))
NameInputs  == {CreatorName} \cup Range(NamePool) \cup NameVariants \cup BadNames

\* C8: no two participants have names equal after trimming and lower-casing;
\* joinSession with a name matching a participant's fails with the name
\* conflict error, a valid name matching none is accepted, and a failed
\* joinSession leaves the session as it was.
C8_NameUnique ==
    /\ [](HasSession =>
            /\ NoRepeats([i \in DOMAIN session.participants |->
                             NormName(session.participants[i].name)])
            /\ \A n \in NameInputs :
                  IF \E i \in DOMAIN session.participants :
                         NormName(session.participants[i].name) = NormName(n)
                  THEN joinError(session, SessionId, n) = "Name is already taken"
                  ELSE validateUserName(n).isValid
                          => joinError(session, SessionId, n) = None)
    /\ [][ last'.op = "joinSession" =>
             IF last'.ok
             THEN /\ Len(session'.participants) = Len(session.participants) + 1
                  /\ session'.participants[Len(session'.participants)].id = last'.arg
             ELSE session' = session ]_vars

\* a join refused for a name conflict in a session of two
C8_Witness ==
    /\ HasSession
    /\ last.op = "joinSession" /\ last.error = "Name is already taken"
    /\ Len(session.participants) = 2

Codes == [i \in DOMAIN session.participants |-> session.participants[i].userCode]

\* C9: every participant has one user code, a number in 100..999, and no two
\* participants of the session have the same code.
C9_CodesUnique ==
    HasSession =>
        /\ \A i \in DOMAIN Codes : Codes[i] \in 100..999
        /\ NoRepeats(Codes)

\* two participants, one of whom got code 101, which only the linear scan
\* after ten colliding random codes hands out
C9_Witness ==
    /\ HasSession /\ last.op = "joinSession" /\ last.ok
    /\ Len(session.participants) = 2
    /\ InSeq(CodeMin + 1, Codes)

\* the fields of a participant that make up its identity
Identity(p) == [id |-> p.id, name |-> p.name, userCode |-> p.userCode,
                isCreator |-> p.isCreator, isAdmin |-> p.isAdmin]

\* C10: rejoinSession with the code of a participant returns that
\* participant's id, code, name and creator/admin flags as they were handed
\* out, an unknown code fails, and the call changes nothing; within one
\* session the identity of a participant never changes.
C10_RejoinLookup ==
    /\ [](HasSession =>
            /\ \A i \in DOMAIN session.participants :
                  LET p == session.participants[i] IN
                  rejoinResult(session, SessionId, p.userCode) =
                      [success |-> TRUE, error |-> None,
                       userId |-> p.id, userCode |-> p.userCode,
                       userData |-> [name |-> p.name,
                                     isCreator |-> p.id = session.creator,
                                     isAdmin |-> p.id = session.creator]]
            /\ \A c \in (CodeMin..(CodeMin + 3)) \cup {CodeMax} :
                  ~InSeq(c, Codes) =>
                      ~rejoinResult(session, SessionId, c).success)
    /\ [][ /\ last'.op = "rejoinSession" =>
                /\ UNCHANGED <<session, cleanupTimer, timers, nextUid, nextKid>>
                /\ last'.ok <=> (HasSession /\ last'.arg \in UserIdsOf(session))
           /\ (HasSession /\ session'.id # None
                  /\ session'.creator = session.creator) =>
                 \A i \in DOMAIN session.participants :
                    Identity(session'.participants[i])
                       = Identity(session.participants[i]) ]_vars

\* a rejoin that returned the participant who joined second
C10_Witness ==
    /\ HasSession /\ last.op = "rejoinSession" /\ last.ok
    /\ Len(session.participants) = 2
    /\ last.arg = session.participants[2].id

\* the participant with id u
ParticipantOf(s, u) == MapGet(s.participants, IdOf, u)

\* C11: the creator and the admin of a session are participants of it, that
\* participant is flagged isCreator and isAdmin, and no other participant
\* carries either flag.
\* While the session lasts no participant is removed and the admin stays.
C11_CreatorIsAdmin ==
    /\ [](HasSession =>
            /\ session.creator \in UserIdsOf(session)
            /\ session.adminUserId \in UserIdsOf(session)
            /\ session.adminUserId = session.creator
            /\ ParticipantOf(session, session.creator).isCreator
            /\ ParticipantOf(session, session.adminUserId).isAdmin
            /\ \A i \in DOMAIN session.participants :
                  LET p == session.participants[i] IN
                  p.id # session.creator => ~p.isCreator /\ ~p.isAdmin)
    /\ [][ (HasSession /\ session'.id # None
              /\ session'.creator = session.creator) =>
             /\ session'.adminUserId = session.adminUserId
             /\ UserIdsOf(session) \subseteq UserIdsOf(session') ]_vars

\* a session of two, the second of whom has just joined
C11_Witness ==
    /\ HasSession /\ last.op = "joinSession" /\ last.ok
    /\ Len(session.participants) = 2
    /\ session.participants[2].id # session.creator

NotAdmin == "Only the session admin can delete the session"

\* C12: deleteSession discards the session only for the current admin: for
\* any other participant or an unknown id it fails with the authorization
\* error and leaves the session and its timer as they were; for the admin it
\* leaves no session (getSession returns null) and no pending timer.
C12_DeleteAdminOnly ==
    /\ [](HasSession =>
            \A u \in 1..(MaxUsers + 1) :
                deleteError(session, SessionId, u) =
                    IF u = session.adminUserId THEN None ELSE NotAdmin)
    /\ [][ last'.op = "deleteSession" =>
             IF last'.ok
             THEN /\ HasSession /\ last'.arg = session.adminUserId
                  /\ getSession(session', SessionId) = NoSession
                  /\ cleanupTimer' = 0 /\ timers' = {}
             ELSE UNCHANGED <<session, cleanupTimer, timers>> ]_vars

\* the admin has deleted a session that had two participants
C12_Witness ==
    /\ last.op = "deleteSession" /\ last.ok
    /\ ~HasSession /\ timers = {} /\ cleanupTimer = 0
    /\ nextUid = 3

\* C13: a successful createSession leaves a fresh session whatever was there
\* before: one participant, the creator, with a new id; no tags, empty
\* pending and finalized lists, status active, expiresAt 24 hours after
\* createdAt, and one pending timer, set for expiresAt.
C13_CreateReplaces ==
    [][ (last'.op = "createSession" /\ last'.ok) =>
          /\ session'.id = SessionId
          /\ Len(session'.participants) = 1
          /\ session'.participants[1].id = last'.arg
          /\ session'.creator = last'.arg
          /\ HasSession => last'.arg \notin UserIdsOf(session)
          /\ session'.keywords = <<>>
          /\ session'.consensus = [finalized |-> <<>>, pending |-> <<>>]
          /\ session'.status = "active"
          /\ session'.createdAt = now
          /\ session'.expiresAt = session'.createdAt + 24
          /\ timers' = {[id |-> cleanupTimer', at |-> session'.expiresAt]} ]_vars

\* a session created at hour 1 in place of one that had a tag
C13_Witness ==
    /\ last.op = "createSession" /\ last.ok
    /\ HasSession /\ session.createdAt = 1 /\ session.expiresAt = 25
    /\ session.creator = 2 /\ nextKid = 2
    /\ session.keywords = <<>>

\* C14: a Store operation that fails changes nothing: after a failed
\* createSession, joinSession, rejoinSession, addKeyword, vote or
\* deleteSession the session, the timer handle, the pending timers and the id
\* counters are as before the call.
C14_FailuresChangeNothing ==
    [][ (last'.op \in {"createSession", "joinSession", "rejoinSession",
                       "addKeyword", "vote", "deleteSession"} /\ ~last'.ok)
          => UNCHANGED <<session, cleanupTimer, timers, nextUid, nextKid>> ]_vars

\* createSession has failed on a session of two, which is still there
C14_Witness ==
    /\ last.op = "createSession" /\ ~last.ok
    /\ HasSession /\ Len(session.participants) = 2
    /\ cleanupTimer # 0 /\ timers # {}

\* the values of all recorded votes
RecordedValues ==
    UNION { { session.keywords[i].votes[j].value :
                  j \in DOMAIN session.keywords[i].votes } :
            i \in DOMAIN session.keywords }

\* C15: a vote request with a value other than +1 and -1 is refused with a
\* validation error, by the REST route and by the socket handler alike, and
\* records nothing; every recorded vote value is +1 or -1.
C15_VoteValues ==
    /\ [](/\ HasSession => RecordedValues \subseteq {1, -1}
          /\ \A v \in -2..2 :
                /\ restVoteRejects(1, 1, v) <=> v \notin {1, -1}
                /\ socketVoteRejects(v) <=> v \notin {1, -1})
    /\ [][ (last'.op = "vote" /\ last'.error \in {BadVoteRequest, BadVoteValue})
             => /\ session' = session
                /\ \E i \in DOMAIN emitted' :
                      emitted'[i].to = "caller"
                         /\ emitted'[i] \in {Http(400), Event("caller", "error", 0)}
                /\ \A i \in DOMAIN emitted' : emitted'[i].to # "room" ]_vars

\* the socket handler has refused a vote on a tag that carries a vote
C15_Witness ==
    /\ HasSession /\ last.op = "vote" /\ last.error = BadVoteValue
    /\ emitted = <<Event("caller", "error", 0)>>
    /\ \E i \in DOMAIN session.keywords : Len(session.keywords[i].votes) = 1

\* the events of one kind about tag k that went to the session room
RoomEvents(evs, kind, k) ==
    { i \in DOMAIN evs : evs[i] = Event("room", kind, k) }

\* C18: when addKeyword creates a tag the room receives a keyword-added
\* event for it; when the text duplicates an existing tag the room receives a
\* vote-updated event for that tag and no keyword-added event (on the REST
\* and on the socket path).
C18_AddEventKind ==
    [][ (last'.op = "addKeyword" /\ last'.ok) =>
          IF nextKid' # nextKid
          THEN RoomEvents(emitted', "keyword-added", last'.arg) # {}
          ELSE /\ RoomEvents(emitted', "vote-updated", last'.arg) # {}
               /\ RoomEvents(emitted', "keyword-added", last'.arg) = {} ]_vars

\* C19: a consensus-reached event naming a tag goes to the room exactly when
\* the tag moves from pending to finalized: one event for every such move,
\* over REST or over the socket, and none for a vote on a tag that was
\* finalized before.
C19_ConsensusEvent ==
    [][ \A k \in 1..MaxTags :
          IF InSeq(k, Pending) /\ InSeq(k, session'.consensus.finalized)
          THEN Cardinality(RoomEvents(emitted', "consensus-reached", k)) = 1
          ELSE RoomEvents(emitted', "consensus-reached", k) = {} ]_vars

\* C16: once the clock has passed expiresAt the session is absent for
\* getSession, and joinSession fails as if there were none, whether or not a
\* timer has run.
C16_LazyExpiry ==
    (HasSession /\ now > session.expiresAt) =>
        /\ getSession(session, SessionId) = NoSession
        /\ joinError(session, SessionId, NamePool[1]) = "Session not found"

\* C17: a session that is neither deleted nor replaced is eventually
\* discarded; the timer callback and the hourly sweep discard it, with its
\* timer, when they run after expiresAt has passed, and leave it alone
\* before.
C17_EventuallyDiscarded ==
    /\ \A u \in 1..(MaxUsers + 1) :
          (HasSession /\ session.creator = u)
              ~> ~(HasSession /\ session.creator = u)
    /\ [][ (last'.op = "cleanupExpiredSession" /\ HasSession) =>
             IF now > session.expiresAt
             THEN ~HasSession' /\ timers' = {} /\ cleanupTimer' = 0
             ELSE session' = session ]_vars

\* a session of two has been discarded after its 24 hours
C17_Witness ==
    /\ last.op = "cleanupExpiredSession" /\ ~HasSession
    /\ now > TTLHours /\ nextUid = 3 /\ timers = {}

\* C20: whenever the session is discarded the room is sent a terminal
\* event, session-deleted for a delete by the admin and an expiry event for
\* an expiry.
C20_TerminalEvent ==
    [][ (HasSession /\ ~HasSession') =>
          \E i \in DOMAIN emitted' :
              /\ emitted'[i].to = "room"
              /\ IF last'.op = "deleteSession"
                 THEN emitted'[i].kind = "session-deleted"
                 ELSE emitted'[i].kind \notin {"session-deleted", "keyword-added",
                          "vote-updated", "consensus-reached",
                          "session-stats-updated"} ]_vars

\* the step keeps the session it started with
SameSession == HasSession /\ session'.id # None /\ session'.creator = session.creator

\* C26: a tag is finalized only when it holds at least 2 votes; the lone +1
\* of the only participant of a session does not finalize a tag.
C26_MinimumVotes ==
    [][ SameSession =>
          \A k \in TagIds(session') :
              (InSeq(k, session'.consensus.finalized) /\ ~InSeq(k, Finalized))
                  => Len(TagOf(session', k).votes) >= 2 ]_vars

\* C27: adding an idea is the adder's +1: a new idea starts with the vote of
\* its adder, and when another participant adds the same idea next, the idea
\* holds 2 votes.
C27_AddEndorses ==
    [][ (SameSession /\ last'.op = "addKeyword" /\ last'.ok) =>
          LET k   == last'.arg
              tag == TagOf(session', k)
          IN  /\ k \notin TagIds(session) =>
                    (Len(tag.votes) = 1 /\ VoteBy(tag, tag.addedBy) = 1)
              /\ ( /\ k \in TagIds(session)
                   /\ last = Ret("addKeyword", None, k)
                   /\ Voters(TagOf(session, k)) \subseteq {tag.addedBy}
                   /\ Voters(tag) \ {tag.addedBy} # {} )
                    => Len(tag.votes) = 2 ]_vars

\* C28: consensus is evaluated after every change of a tag's votes, the +1 of
\* a duplicate addKeyword included: no tag in pending meets the threshold.
C28_PendingBelowThreshold ==
    HasSession => \A i \in DOMAIN Pending : ~ThresholdMet(session, Pending[i])

\* C29: there is at most one pending expiration timer; while a session
\* exists it is the timer set for the session's expiresAt, and without a
\* session no timer is pending (so createSession and deleteSession cancel the
\* previous timer in the step that replaces or removes the session).
C29_OneTimer ==
    /\ Cardinality(timers) <= 1
    /\ HasSession => timers = {[id |-> cleanupTimer, at |-> session.expiresAt]}
    /\ ~HasSession => timers = {}

\* C30: a timer callback, of the timeout or of the hourly sweep, leaves a
\* session whose expiresAt has not passed as it is, and every pending timer
\* is the one of the session that exists, never one of a session replaced or
\* deleted.
C30_NoEarlyDiscard ==
    /\ [][ (last'.op = "cleanupExpiredSession" /\ HasSession
            /\ now <= session.expiresAt) => session' = session ]_vars
    /\ [](\A t \in timers :
             HasSession /\ t.id = cleanupTimer /\ t.at = session.expiresAt)

\* the second session, created at hour 1 over the first, is still there
\* after a callback ran at hour 25, past the expiresAt of the first
C30_Witness ==
    /\ last.op = "cleanupExpiredSession" /\ HasSession
    /\ session.creator = 2 /\ session.createdAt = 1
    /\ now = session.expiresAt /\ now > TTLHours

\* the participant id an event's payload names as the one who acted (0: none)
OriginOf(ev) ==
    IF ev.data = <<>> THEN 0
    ELSE IF "userId" \in DOMAIN ev.data[1] THEN ev.data[1].userId
    ELSE IF "addedBy" \in DOMAIN ev.data[1] THEN ev.data[1].addedBy
    ELSE 0

\* C25: every keyword-added, vote-updated, consensus-reached and
\* session-deleted event sent to the room names, in its payload, the
\* participant whose request caused it.
C25_EventsNameOrigin ==
    [][ \A i \in DOMAIN emitted' :
          (emitted'[i].to = "room"
           /\ emitted'[i].kind \in {"keyword-added", "vote-updated",
                                    "consensus-reached", "session-deleted"})
              => OriginOf(emitted'[i]) = caller' ]_vars

\* what a step put in flight to the socket of c
NewlySent(c) ==
    SubSeq(clients'[c].inbox, Len(clients[c].inbox) + 1, Len(clients'[c].inbox))

\* the kinds of the events of a sequence in flight
Kinds(inbox) == [i \in DOMAIN inbox |-> inbox[i].event.kind]

\* C21: when a socket's join-session is accepted, nothing of the session was
\* in flight to it if it was outside the room, the first event it is sent is
\* session-updated with the whole serialized session as of the join, it is
\* sent no keyword-added, vote-updated or consensus-reached, and the sockets
\* already in the room are sent participant-joined, then
\* participant-count-updated
C21_FirstSyncSnapshot ==
    [][ (last'.op = "join-session" /\ last'.ok) =>
          \A c \in ClientIds :
             IF c = caller'
             THEN /\ ~clients[c].room => clients[c].inbox = <<>>
                  /\ NewlySent(c) # <<>>
                  /\ NewlySent(c)[1].event.kind = "session-updated"
                  /\ NewlySent(c)[1].event.data = <<serializeSession(session')>>
                  /\ \A i \in DOMAIN NewlySent(c) :
                        NewlySent(c)[i].event.kind \notin
                           {"keyword-added", "vote-updated", "consensus-reached",
                            "participant-joined"}
             ELSE IF clients[c].room
             THEN Kinds(NewlySent(c)) =
                     <<"participant-joined", "participant-count-updated">>
             ELSE NewlySent(c) = <<>> ]_vars

\* a socket has just joined a session that already has an idea with a vote,
\* while the other socket is in the room: the snapshot is first in flight to
\* the one, participant-joined is in flight to the other
C21_Witness ==
    /\ last.op = "join-session" /\ last.ok
    /\ session.keywords # <<>> /\ session.keywords[1].votes # <<>>
    /\ clients[caller].inbox # <<>>
    /\ clients[caller].inbox[1].event.kind = "session-updated"
    /\ clients[caller].inbox[1].event.data[1].keywords # <<>>
    /\ \E d \in ClientIds \ {caller} :
          /\ clients[d].room
          /\ \E i \in DOMAIN clients[d].inbox :
                clients[d].inbox[i].event.kind = "participant-joined"

\* the events that tell of the session's state
SessionEventKinds ==
    {"keyword-added", "vote-updated", "consensus-reached", "session-updated"}

\* the session events of a sequence in flight
SessionEvents(inbox) ==
    SelectSeq(inbox, LAMBDA m : m.event.kind \in SessionEventKinds)

ReplicaView(r) ==
    [participants |-> {r.participants[i].id : i \in DOMAIN r.participants},
     keywords |-> {[id |-> r.keywords[i].id, votes |-> r.keywords[i].votes,
                    totalScore |-> r.keywords[i].totalScore] :
                      i \in DOMAIN r.keywords},
     pending |-> r.consensus.pending,
     finalized |-> r.consensus.finalized]

\* C23: when nothing is in flight to any browser, neither event nor reply,
\* the store of every browser whose socket is in the room shows the
\* participants, keywords, votes, scores and consensus lists of the
\* server's serialized session
C23_Convergence ==
    (\A c \in ClientIds : clients[c].inbox = <<>> /\ clients[c].http = <<>>) =>
        \A c \in ClientIds :
            clients[c].room =>
                ReplicaView(clients[c].session) = ReplicaView(serializeSession(session))

\* C24: the store of a browser never holds two keywords with one id
C24_NoDuplicateIds ==
    \A c \in ClientIds :
        clients[c].session # NoReplica =>
            \A i, j \in DOMAIN clients[c].session.keywords :
                i # j => clients[c].session.keywords[i].id
                            # clients[c].session.keywords[j].id

\* one to three non-empty runs of ASCII letters joined by single hyphens,
\* once the white space around the text is taken off
HyphenWords(t) ==
    LET w == trim(t) IN
    /\ w # <<>>
    /\ \A i \in DOMAIN w : w[i] = "-" \/ w[i] \in UpperChars \cup LowerChars
    /\ w[1] # "-" /\ w[Len(w)] # "-"
    /\ \A i \in 1..(Len(w) - 1) : ~(w[i] = "-" /\ w[i + 1] = "-")
    /\ Cardinality({i \in DOMAIN w : w[i] = "-"}) <= 2

\* C34: validateTag accepts the text typed exactly when, trimmed, it is one
\* to three runs of letters joined by single hyphens, and addKeyword returns
\* a tag only for such a text
C34_TagFormat ==
    /\ last.op = "validateTag" =>
          \A t \in submitted : last.arg.isValid <=> HyphenWords(t)
    /\ (last.op = "addKeyword" /\ last.ok) =>
          \A t \in submitted : HyphenWords(t)
    /\ (last.op = "addKeyword" /\ ~last.ok) =>
          \A t \in submitted : ~HyphenWords(t)

\* a padded text of three words in mixed case has been stored as a tag
C34_Witness ==
    /\ last.op = "addKeyword" /\ last.ok
    /\ submitted = {TabbedTag}
    /\ session.keywords # <<>>
    /\ session.keywords[1].text = ThreeLetters

\* C35: the suggestion that comes with a rejection passes validateTag when
\* it is typed in turn, and 'coffee shop', 'a-b-c-d' and 'saturday morning
\* coffee meetup' are rejected with the suggestions 'coffee-shop', 'a-b-c'
\* and 'saturday-morning-coffee'
C35_SuggestionValid ==
    /\ [][(last.op = "getTagErrorMessage" /\ last'.op = "validateTag")
             => last'.ok]_vars
    /\ [](last.op = "validateTag" =>
            /\ submitted = {CoffeeShop} =>
                  ~last.ok /\ last.arg.hasSuggestion
                  /\ last.arg.suggestion = CoffeeShopTag
            /\ submitted = {FourLetters} =>
                  ~last.ok /\ last.arg.hasSuggestion
                  /\ last.arg.suggestion = ThreeLetters
            /\ submitted = {SaturdayMeetup} =>
                  ~last.ok /\ last.arg.hasSuggestion
                  /\ last.arg.suggestion = SaturdayTag)

\* C36: normalizeTag of a normalized text is that text, the normalized form
\* of a text that validateTag accepts is the trimmed text in lower case, and
\* every stored tag text is its own normalized form
C36_NormalizeIdempotent ==
    /\ [][(last.op = "normalizeTag" /\ last'.op = "normalizeTag")
             => last'.arg = last.arg]_vars
    /\ [](last.op = "normalizeTag" =>
             /\ submitted = {last.arg}
             /\ \A i \in DOMAIN last.arg : last.arg[i] \in LowerChars \cup {"-"})
    /\ [][(last.op = "validateTag" /\ last.ok /\ last'.op = "normalizeTag")
             => \A t \in submitted : last'.arg = toLowerCase(trim(t))]_vars
    /\ [](\A i \in DOMAIN session.keywords :
             normalizeTag(session.keywords[i].text) = session.keywords[i].text)

\* normalizeTag has returned 'a-b', which is the text typed now
C36_Witness ==
    /\ last.op = "normalizeTag"
    /\ last.arg = <<"a", "-", "b">>
    /\ submitted = {<<"a", "-", "b">>}

\* C37: a session that exists has the status 'active', and no call ends
\* with the failure 'Session is not active'
C37_AlwaysActive ==
    /\ HasSession => session.status = "active"
    /\ last.error # "Session is not active"

\* a participant has come back to a session that has a finalized tag
C37_Witness ==
    /\ last.op = "rejoinSession" /\ last.ok
    /\ HasSession /\ session.consensus.finalized # <<>>

\* C31: a smart add changes nothing of the session when it starts to await
\* the LLM; when the LLM has answered it adds a tag only if a session exists
\* then and the user is a participant of it; if the session it was asked for
\* is gone or has been replaced, it fails and changes nothing
C31_SmartAddDecoupled ==
    [][ /\ last'.op = "addKeywordWithLLM" => session' = session
        /\ last'.op = "addKeyword" =>
              /\ last'.ok => /\ HasSession
                             /\ MapHas(session.participants, IdOf, caller')
              /\ ~last'.ok => session' = session
              /\ (~HasSession \/ session.creator # clients[caller'].smart[1].creator)
                    => ~last'.ok /\ session' = session ]_vars

\* the smart add of user 1 has failed in the session that user 2 created
\* while the LLM was awaited
C31_Witness ==
    /\ last.op = "addKeyword" /\ ~last.ok
    /\ caller = 1
    /\ HasSession /\ session.creator = 2
    /\ session.keywords = <<>>

\* the events sent to socket c by the step
Received(c) == [i \in DOMAIN NewlySent(c) |-> NewlySent(c)[i].event]

Planning(s) ==
    IF s.id = None THEN s
    ELSE [s EXCEPT !.participants =
             [i \in DOMAIN @ |-> [@[i] EXCEPT !.socketId = 0]]]

ConnectionOps == {"connect", "join-session", "leave-session", "disconnect"}

\* C32: connect, join-session, leave-session and disconnect leave the
\* participants, tags, votes, scores and consensus of the session as they
\* are; an accepted join-session changes only the socketId of the joining
\* participant, to a connected socket, and disconnect changes only socketIds
\* that were the id of the disconnecting socket, clearing them
C32_ConnectionFrame ==
    [][ last'.op \in ConnectionOps =>
          /\ Planning(session') = Planning(session)
          /\ UNCHANGED <<nextUid, nextKid, cleanupTimer, timers>>
          /\ last'.op \in {"connect", "leave-session"} => session' = session
          /\ (last'.op = "join-session" /\ ~last'.ok) => session' = session
          /\ (last'.op = "join-session" /\ last'.ok) =>
                \A i \in DOMAIN session.participants :
                   IF session.participants[i].id = caller'
                   THEN /\ session'.participants[i].socketId \in ClientIds
                        /\ clients'[session'.participants[i].socketId].open
                   ELSE session'.participants[i].socketId
                           = session.participants[i].socketId
          /\ (last'.op = "disconnect" /\ HasSession) =>
                \A i \in DOMAIN session.participants :
                   \/ session'.participants[i].socketId
                         = session.participants[i].socketId
                   \/ /\ session.participants[i].socketId = last'.arg
                      /\ session'.participants[i].socketId = 0 ]_vars

\* the socket of the creator of a session with a tag and a second participant
\* has disconnected: both participants and the tag are there, the creator has
\* no socketId
C32_Witness ==
    /\ last.op = "disconnect"
    /\ HasSession
    /\ Len(session.participants) = 2 /\ Len(session.keywords) = 1
    /\ session.participants[1].socketId = 0
    /\ "participant-offline" \in {emitted[i].kind : i \in DOMAIN emitted}

RoomEventKinds ==
    SessionEventKinds \cup {"participant-joined", "participant-left",
                            "participant-offline", "participant-count-updated",
                            "session-stats-updated"}

\* C38: a socket is sent an event of a session only if a user it joined the
\* room for is a participant of that session
C38_EventsForParticipantsOnly ==
    [][ \A k \in ClientIds :
           \A i \in DOMAIN Received(k) :
              Received(k)[i].kind \in RoomEventKinds =>
                 /\ HasSession'
                 /\ \E u \in clients'[k].users :
                       MapHas(session'.participants, IdOf, u) ]_vars

\* the sockets that are connected and joined the room for user userId
socketsOf(cl, userId) ==
    {k \in DOMAIN cl : cl[k].open /\ cl[k].room /\ userId \in cl[k].users}

\* C39: the online number of a participant-count-updated event is the number
\* of participants for whom a connected socket is in the room
C39_OnlineCount ==
    [][ \A i \in DOMAIN emitted' :
           emitted'[i].kind = "participant-count-updated" =>
              emitted'[i].data[1].online =
                 Cardinality({j \in DOMAIN session'.participants :
                    socketsOf(clients', session'.participants[j].id) # {}}) ]_vars

\* C40: a browser that has a session and a user and whose socket is
\* connected comes to have its socket in the room of the session, unless the
\* connection drops first
C40_Resubscribes ==
    \A c \in ClientIds :
        (clients[c].session # NoReplica /\ clients[c].open)
            ~> (clients[c].room \/ ~clients[c].open)
====
